---- MODULE Spec2Model ----
(***************************************************************************)
(* Model of the PD0 ensemble decoder of glider_utils/parsers/dvl_parser.py *)
(* (class DVLparser).  The module runs under Python 2 and under Python 3   *)
(* (it tests sys.version_info.major at line 27, and the package loads it   *)
(* under either), and three of its expressions depend on which: str() of   *)
(* the ensemble, "/" on integers, and range() of the quotient.  The        *)
(* interpreter is chosen once per run.  A decode run is DVLparser.__init__: *)
(* the buffer is scanned for record markers and every marker's candidate   *)
(* ensemble goes through _build_parsed_values, which appends to the        *)
(* columns of the DVLdata store.  Byte positions are 0-based as in the     *)
(* source; sequences are 1-based, so byte i of b is b[i + 1].              *)
(***************************************************************************)
EXTENDS Integers, Sequences, FiniteSets, TLC

(* sys.version_info.major of the interpreter running the module: 2 or 3.  *)
VARIABLE py_major

Min(a, b) == IF a <= b THEN a ELSE b

(* Python slice b[lo:hi] for 0 <= lo, 0 <= hi: clipped to the length of b. *)
Slice(b, lo, hi) == SubSeq(b, lo + 1, Min(hi, Len(b)))

(* struct.unpack field readers, little-endian, at 0-based offset off. *)
U8(b, off) == b[off + 1]

U16(b, off) == b[off + 1] + 256 * b[off + 2]

S16(b, off) == IF U16(b, off) >= 32768 THEN U16(b, off) - 65536 ELSE U16(b, off)

U32(b, off) == U16(b, off) + 65536 * U16(b, off + 2)

RECURSIVE BitAnd(_, _)
(* Python's integer "&" on non-negative operands. *)
BitAnd(a, b) ==
  IF a = 0 \/ b = 0 THEN 0
  ELSE (a % 2) * (b % 2) + 2 * BitAnd(a \div 2, b \div 2)

(* Python's integer ">>". *)
ShiftRight(a, n) == a \div (2 ^ n)

(* "1 if v & mask else 0" *)
Flag(v, mask) == IF BitAnd(v, mask) # 0 THEN 1 ELSE 0

(* parse_fixed_chunk: the frequency lookup table (0-based in the source). *)
frequencies == <<75, 150, 300, 600, 1200, 2400>>

(* np.nan, the sentinel of fill_bt_nans: a value no decoded Bottom Track   *)
(* field can take (each is a B, H or h field, so lies in -32768 .. 65535). *)
NaN == -2147483647

(* ------------------------------------------------------------------------ *)
(* datetime.datetime(...) and calendar.timegm                               *)

IsLeap(y) == (y % 4 = 0 /\ y % 100 # 0) \/ y % 400 = 0

DaysInMonth(y, m) ==
  IF m = 2 THEN (IF IsLeap(y) THEN 29 ELSE 28)
  ELSE IF m \in {4, 6, 9, 11} THEN 30 ELSE 31

(* datetime.datetime raises ValueError unless every component is in range. *)
ValidDateTime(y, mo, d, h, mi, s) ==
  /\ y \in 1..9999
  /\ mo \in 1..12
  /\ d >= 1 /\ d <= DaysInMonth(y, mo)
  /\ h \in 0..23 /\ mi \in 0..59 /\ s \in 0..59

LeapsBefore(y) == ((y - 1) \div 4) - ((y - 1) \div 100) + ((y - 1) \div 400)

RECURSIVE DaysBeforeMonth(_, _)
DaysBeforeMonth(y, m) ==
  IF m <= 1 THEN 0 ELSE DaysBeforeMonth(y, m - 1) + DaysInMonth(y, m - 1)

(* calendar.timegm: seconds since 1970-01-01T00:00:00Z. *)
timegm(y, mo, d, h, mi, s) ==
  LET days == 365 * (y - 1970) + (LeapsBefore(y) - LeapsBefore(1970))
              + DaysBeforeMonth(y, mo) + (d - 1)
  IN  ((days * 24 + h) * 60 + mi) * 60 + s

(* float(seconds + (hundredths/100)): "/" between integers floors under    *)
(* Python 2 and is the true quotient under Python 3.  The float is held as *)
(* its number of hundredths.                                               *)
FloatSeconds(seconds, hundredths) ==
  IF py_major < 3 THEN 100 * (seconds + (hundredths \div 100))
  ELSE 100 * seconds + hundredths

(* epts = timegm(dts.timetuple()) + hundredths / 100.0, a float with two   *)
(* decimals; it is held here as the pair <<whole seconds, hundredths>>.    *)
epts(v) ==
  << timegm(2000 + v.rtc_year, v.rtc_month, v.rtc_day,
            v.rtc_hour, v.rtc_minute, v.rtc_second), v.rtc_hundredths >>

(* ------------------------------------------------------------------------ *)
(* The column names of class Names, by section.                             *)

(* Names, "Header Data": lines 53-58 *)
HeaderColumns ==
  { "header_id", "data_source_id", "num_bytes", "num_data_types", "offset_data_types" }

(* Names, "Fixed Leader Data": lines 60-110 *)
FixedLeaderColumns ==
  { "fixed_leader_id", "firmware_version", "firmware_revision", "sysconfig_frequency",
    "sysconfig_beam_pattern", "sysconfig_sensor_config", "sysconfig_head_attached",
    "sysconfig_vertical_orientation", "data_flag", "lag_length", "num_beams", "num_cells",
    "pings_per_ensemble", "depth_cell_length", "blank_after_transmit",
    "signal_processing_mode", "low_corr_threshold", "num_code_repetitions", "percent_good_min",
    "error_vel_threshold", "time_per_ping_minutes", "time_per_ping_seconds",
    "coord_transform_type", "coord_transform_tilts", "coord_transform_beams",
    "coord_transform_mapping", "heading_alignment", "heading_bias", "sensor_source_speed",
    "sensor_source_depth", "sensor_source_heading", "sensor_source_pitch",
    "sensor_source_roll", "sensor_source_conductivity", "sensor_source_temperature",
    "sensor_available_depth", "sensor_available_heading", "sensor_available_pitch",
    "sensor_available_roll", "sensor_available_conductivity", "sensor_available_temperature",
    "bin_1_distance", "transmit_pulse_length", "reference_layer_start", "reference_layer_stop",
    "false_target_threshold", "low_latency_trigger", "transmit_lag_distance",
    "system_bandwidth", "serial_number" }

(* Names, "Variable Leader Data": lines 112-162 *)
VariableLeaderColumns ==
  { "variable_leader_id", "ensemble_number", "ensemble_number_increment", "real_time_clock",
    "ensemble_start_time", "bit_result_demod_1", "bit_result_demod_2", "bit_result_timing",
    "speed_of_sound", "transducer_depth", "heading", "pitch", "roll", "salinity",
    "temperature", "mpt_minutes", "mpt_seconds", "heading_stdev", "pitch_stdev", "roll_stdev",
    "adc_transmit_current", "adc_transmit_voltage", "adc_ambient_temp", "adc_pressure_plus",
    "adc_pressure_minus", "adc_attitude_temp", "adc_attitude", "adc_contamination_sensor",
    "bus_error_exception", "address_error_exception", "illegal_instruction_exception",
    "zero_divide_instruction", "emulator_exception", "unassigned_exception",
    "watchdog_restart_occurred", "battery_saver_power", "pinging", "cold_wakeup_occurred",
    "unknown_wakeup_occurred", "clock_read_error", "unexpected_alarm", "clock_jump_forward",
    "clock_jump_backward", "power_fail", "spurious_dsp_interrupt", "spurious_uart_interrupt",
    "spurious_clock_interrupt", "level_7_interrupt", "pressure", "pressure_variance" }

(* Names, "Velocity Data": lines 164-169 *)
VelocityColumns ==
  { "velocity_data_id", "water_velocity_east", "water_velocity_north", "water_velocity_up",
    "error_velocity" }

(* Names, "Correlation Magnitude Data": lines 171-176 *)
CorrelationMagnitudeColumns ==
  { "correlation_magnitude_id", "correlation_magnitude_beam1", "correlation_magnitude_beam2",
    "correlation_magnitude_beam3", "correlation_magnitude_beam4" }

(* Names, "Echo Intensity Data": lines 178-183 *)
EchoIntensityColumns ==
  { "echo_intensity_id", "echo_intensity_beam1", "echo_intensity_beam2",
    "echo_intensity_beam3", "echo_intensity_beam4" }

(* Names, "Percent Good Data": lines 185-190 *)
PercentGoodColumns ==
  { "percent_good_id", "percent_good_3beam", "percent_transforms_reject", "percent_bad_beams",
    "percent_good_4beam" }

(* Names, "Bottom Track Data": lines 192-249 *)
BottomTrackColumns ==
  { "bottom_track_id", "bt_pings_per_ensemble", "bt_delay_before_reacquire",
    "bt_corr_magnitude_min", "bt_eval_magnitude_min", "bt_percent_good_min", "bt_mode",
    "bt_error_velocity_max", "beam1_bt_range_lsb", "beam2_bt_range_lsb", "beam3_bt_range_lsb",
    "beam4_bt_range_lsb", "eastward_bt_velocity", "northward_bt_velocity",
    "upward_bt_velocity", "error_bt_velocity", "beam1_bt_correlation", "beam2_bt_correlation",
    "beam3_bt_correlation", "beam4_bt_correlation", "beam1_eval_amp", "beam2_eval_amp",
    "beam3_eval_amp", "beam4_eval_amp", "beam1_bt_percent_good", "beam2_bt_percent_good",
    "beam3_bt_percent_good", "beam4_bt_percent_good", "ref_layer_min", "ref_layer_near",
    "ref_layer_far", "beam1_ref_layer_velocity", "beam2_ref_layer_velocity",
    "beam3_ref_layer_velocity", "beam4_ref_layer_velocity", "beam1_ref_correlation",
    "beam2_ref_correlation", "beam3_ref_correlation", "beam4_ref_correlation",
    "beam1_ref_intensity", "beam2_ref_intensity", "beam3_ref_intensity", "beam4_ref_intensity",
    "beam1_ref_percent_good", "beam2_ref_percent_good", "beam3_ref_percent_good",
    "beam4_ref_percent_good", "bt_max_depth", "beam1_rssi_amplitude", "beam2_rssi_amplitude",
    "beam3_rssi_amplitude", "beam4_rssi_amplitude", "bt_gain", "beam1_bt_range_msb",
    "beam2_bt_range_msb", "beam3_bt_range_msb", "beam4_bt_range_msb" }

(* Names, "Ensemble checksum": lines 251-252 *)
ChecksumColumns ==
  { "checksum" }

UnpackFixed(chunk) ==
  [ fixed_leader_id |-> U16(chunk, 0),
    firmware_version |-> U8(chunk, 2),
    firmware_revision |-> U8(chunk, 3),
    sysconfig_frequency |-> U16(chunk, 4),
    data_flag |-> U8(chunk, 6),
    lag_length |-> U8(chunk, 7),
    num_beams |-> U8(chunk, 8),
    num_cells |-> U8(chunk, 9),
    pings_per_ensemble |-> U16(chunk, 10),
    depth_cell_length |-> U16(chunk, 12),
    blank_after_transmit |-> U16(chunk, 14),
    signal_processing_mode |-> U8(chunk, 16),
    low_corr_threshold |-> U8(chunk, 17),
    num_code_repetitions |-> U8(chunk, 18),
    percent_good_min |-> U8(chunk, 19),
    error_vel_threshold |-> U16(chunk, 20),
    time_per_ping_minutes |-> U8(chunk, 22),
    time_per_ping_seconds |-> U8(chunk, 23),
    time_per_ping_hundredths |-> U8(chunk, 24),
    coord_transform_type |-> U8(chunk, 25),
    heading_alignment |-> S16(chunk, 26),
    heading_bias |-> S16(chunk, 28),
    sensor_source |-> U8(chunk, 30),
    sensor_available |-> U8(chunk, 31),
    bin_1_distance |-> U16(chunk, 32),
    transmit_pulse_length |-> U16(chunk, 34),
    reference_layer_start |-> U8(chunk, 36),
    reference_layer_stop |-> U8(chunk, 37),
    false_target_threshold |-> U8(chunk, 38),
    transmit_lag_distance |-> U16(chunk, 40),
    system_bandwidth |-> U16(chunk, 50),
    serial_number |-> U32(chunk, 54) ]

UnpackVariable(chunk) ==
  [ variable_leader_id |-> U16(chunk, 0),
    ensemble_number |-> U16(chunk, 2),
    rtc_year |-> U8(chunk, 4),
    rtc_month |-> U8(chunk, 5),
    rtc_day |-> U8(chunk, 6),
    rtc_hour |-> U8(chunk, 7),
    rtc_minute |-> U8(chunk, 8),
    rtc_second |-> U8(chunk, 9),
    rtc_hundredths |-> U8(chunk, 10),
    ensemble_number_increment |-> U8(chunk, 11),
    error_bit_field |-> U8(chunk, 12),
    reserved_error_bit_field |-> U8(chunk, 13),
    speed_of_sound |-> U16(chunk, 14),
    transducer_depth |-> U16(chunk, 16),
    heading |-> U16(chunk, 18),
    pitch |-> S16(chunk, 20),
    roll |-> S16(chunk, 22),
    salinity |-> U16(chunk, 24),
    temperature |-> S16(chunk, 26),
    mpt_minutes |-> U8(chunk, 28),
    mpt_seconds_component |-> U8(chunk, 29),
    mpt_hundredths_component |-> U8(chunk, 30),
    heading_stdev |-> U8(chunk, 31),
    pitch_stdev |-> U8(chunk, 32),
    roll_stdev |-> U8(chunk, 33),
    adc_transmit_current |-> U8(chunk, 34),
    adc_transmit_voltage |-> U8(chunk, 35),
    adc_ambient_temp |-> U8(chunk, 36),
    adc_pressure_plus |-> U8(chunk, 37),
    adc_pressure_minus |-> U8(chunk, 38),
    adc_attitude_temp |-> U8(chunk, 39),
    adc_attitiude |-> U8(chunk, 40),
    adc_contamination_sensor |-> U8(chunk, 41),
    error_status_word_1 |-> U8(chunk, 42),
    error_status_word_2 |-> U8(chunk, 43),
    error_status_word_3 |-> U8(chunk, 44),
    error_status_word_4 |-> U8(chunk, 45),
    pressure |-> U32(chunk, 48),
    pressure_variance |-> U32(chunk, 52) ]

UnpackBottomTrack(chunk) ==
  [ bottom_track_id |-> U16(chunk, 0),
    bt_pings_per_ensemble |-> U16(chunk, 2),
    bt_delay_before_reacquire |-> U16(chunk, 4),
    bt_corr_magnitude_min |-> U8(chunk, 6),
    bt_eval_magnitude_min |-> U8(chunk, 7),
    bt_percent_good_min |-> U8(chunk, 8),
    bt_mode |-> U8(chunk, 9),
    bt_error_velocity_max |-> U16(chunk, 10),
    beam1_bt_range_lsb |-> U16(chunk, 16),
    beam2_bt_range_lsb |-> U16(chunk, 18),
    beam3_bt_range_lsb |-> U16(chunk, 20),
    beam4_bt_range_lsb |-> U16(chunk, 22),
    eastward_bt_velocity |-> S16(chunk, 24),
    northward_bt_velocity |-> S16(chunk, 26),
    upward_bt_velocity |-> S16(chunk, 28),
    error_bt_velocity |-> S16(chunk, 30),
    beam1_bt_correlation |-> U8(chunk, 32),
    beam2_bt_correlation |-> U8(chunk, 33),
    beam3_bt_correlation |-> U8(chunk, 34),
    beam4_bt_correlation |-> U8(chunk, 35),
    beam1_eval_amp |-> U8(chunk, 36),
    beam2_eval_amp |-> U8(chunk, 37),
    beam3_eval_amp |-> U8(chunk, 38),
    beam4_eval_amp |-> U8(chunk, 39),
    beam1_bt_percent_good |-> U8(chunk, 40),
    beam2_bt_percent_good |-> U8(chunk, 41),
    beam3_bt_percent_good |-> U8(chunk, 42),
    beam4_bt_percent_good |-> U8(chunk, 43),
    ref_layer_min |-> U16(chunk, 44),
    ref_layer_near |-> U16(chunk, 46),
    ref_layer_far |-> U16(chunk, 48),
    beam1_ref_layer_velocity |-> S16(chunk, 50),
    beam2_ref_layer_velocity |-> S16(chunk, 52),
    beam3_ref_layer_velocity |-> S16(chunk, 54),
    beam4_ref_layer_velocity |-> S16(chunk, 56),
    beam1_ref_correlation |-> U8(chunk, 58),
    beam2_ref_correlation |-> U8(chunk, 59),
    beam3_ref_correlation |-> U8(chunk, 60),
    beam4_ref_correlation |-> U8(chunk, 61),
    beam1_ref_intensity |-> U8(chunk, 62),
    beam2_ref_intensity |-> U8(chunk, 63),
    beam3_ref_intensity |-> U8(chunk, 64),
    beam4_ref_intensity |-> U8(chunk, 65),
    beam1_ref_percent_good |-> U8(chunk, 66),
    beam2_ref_percent_good |-> U8(chunk, 67),
    beam3_ref_percent_good |-> U8(chunk, 68),
    beam4_ref_percent_good |-> U8(chunk, 69),
    bt_max_depth |-> U16(chunk, 70),
    beam1_rssi_amplitude |-> U8(chunk, 72),
    beam2_rssi_amplitude |-> U8(chunk, 73),
    beam3_rssi_amplitude |-> U8(chunk, 74),
    beam4_rssi_amplitude |-> U8(chunk, 75),
    bt_gain |-> U8(chunk, 76),
    beam1_bt_range_msb |-> U8(chunk, 77),
    beam2_bt_range_msb |-> U8(chunk, 78),
    beam3_bt_range_msb |-> U8(chunk, 79),
    beam4_bt_range_msb |-> U8(chunk, 80) ]

(* lines 428-430, 3 appends *)
FixedOpsA(f) ==
  << <<"fixed_leader_id", f.fixed_leader_id>>,
     <<"firmware_version", f.firmware_version>>,
     <<"firmware_revision", f.firmware_revision>> >>

(* FixedOpsB with the masks of the last two flags exchanged. *)
FixedOpsBFlagsExchanged(f) ==
  << <<"sysconfig_frequency", frequencies[BitAnd(f.sysconfig_frequency, 7) + 1]>>,
     <<"sysconfig_beam_pattern", Flag(f.sysconfig_frequency, 8)>>,
     <<"sysconfig_sensor_config", BitAnd(f.sysconfig_frequency, ShiftRight(48, 4))>>,
     <<"sysconfig_head_attached", Flag(f.sysconfig_frequency, 128)>>,
     <<"sysconfig_vertical_orientation", Flag(f.sysconfig_frequency, 64)>> >>

(* lines 432-438, 5 appends *)
FixedOpsB(f) ==
  << <<"sysconfig_frequency", frequencies[BitAnd(f.sysconfig_frequency, 7) + 1]>>,
     <<"sysconfig_beam_pattern", Flag(f.sysconfig_frequency, 8)>>,
     <<"sysconfig_sensor_config", BitAnd(f.sysconfig_frequency, ShiftRight(48, 4))>>,
     <<"sysconfig_head_attached", Flag(f.sysconfig_frequency, 64)>>,
     <<"sysconfig_vertical_orientation", Flag(f.sysconfig_frequency, 128)>> >>

(* lines 443-449, 7 appends *)
FixedOpsC(f) ==
  << <<"data_flag", f.data_flag>>,
     <<"lag_length", f.lag_length>>,
     <<"num_beams", f.num_beams>>,
     <<"num_cells", f.num_cells>>,
     <<"pings_per_ensemble", f.pings_per_ensemble>>,
     <<"depth_cell_length", f.depth_cell_length>>,
     <<"blank_after_transmit", f.blank_after_transmit>> >>

(* lines 454-493, 34 appends *)
FixedOpsD(f) ==
  << <<"signal_processing_mode", f.signal_processing_mode>>,
     <<"low_corr_threshold", f.low_corr_threshold>>,
     <<"num_code_repetitions", f.num_code_repetitions>>,
     <<"percent_good_min", f.percent_good_min>>,
     <<"error_vel_threshold", f.error_vel_threshold>>,
     <<"time_per_ping_minutes", f.time_per_ping_minutes>>,
     <<"time_per_ping_seconds", FloatSeconds(f.time_per_ping_seconds, f.time_per_ping_hundredths)>>,
     <<"coord_transform_type", BitAnd(f.coord_transform_type, ShiftRight(24, 3))>>,
     <<"coord_transform_tilts", Flag(f.coord_transform_type, 4)>>,
     <<"coord_transform_beams", Flag(f.coord_transform_type, 0)>>,
     <<"coord_transform_mapping", Flag(f.coord_transform_type, 1)>>,
     <<"heading_alignment", f.heading_alignment>>,
     <<"heading_bias", f.heading_bias>>,
     <<"sensor_source_speed", Flag(f.sensor_source, 64)>>,
     <<"sensor_source_depth", Flag(f.sensor_source, 32)>>,
     <<"sensor_source_heading", Flag(f.sensor_source, 16)>>,
     <<"sensor_source_pitch", Flag(f.sensor_source, 8)>>,
     <<"sensor_source_roll", Flag(f.sensor_source, 4)>>,
     <<"sensor_source_conductivity", Flag(f.sensor_source, 2)>>,
     <<"sensor_source_temperature", Flag(f.sensor_source, 1)>>,
     <<"sensor_available_depth", Flag(f.sensor_available, 32)>>,
     <<"sensor_available_heading", Flag(f.sensor_available, 16)>>,
     <<"sensor_available_pitch", Flag(f.sensor_available, 8)>>,
     <<"sensor_available_roll", Flag(f.sensor_available, 4)>>,
     <<"sensor_available_conductivity", Flag(f.sensor_available, 2)>>,
     <<"sensor_available_temperature", Flag(f.sensor_available, 1)>>,
     <<"bin_1_distance", f.bin_1_distance>>,
     <<"transmit_pulse_length", f.transmit_pulse_length>>,
     <<"reference_layer_start", f.reference_layer_start>>,
     <<"reference_layer_stop", f.reference_layer_stop>>,
     <<"false_target_threshold", f.false_target_threshold>>,
     <<"transmit_lag_distance", f.transmit_lag_distance>>,
     <<"system_bandwidth", f.system_bandwidth>>,
     <<"serial_number", f.serial_number>> >>

(* lines 518-520, 3 appends *)
VariableOpsA(v) ==
  << <<"variable_leader_id", v.variable_leader_id>>,
     <<"ensemble_number", v.ensemble_number>>,
     <<"ensemble_number_increment", v.ensemble_number_increment>> >>

(* lines 530-581, 47 appends *)
VariableOpsB(v) ==
  << <<"real_time_clock", <<v.rtc_year, v.rtc_month, v.rtc_day, v.rtc_hour, v.rtc_minute, v.rtc_second, v.rtc_hundredths>>>>,
     <<"ensemble_start_time", epts(v)>>,
     <<"bit_result_demod_1", Flag(v.error_bit_field, 8)>>,
     <<"bit_result_demod_2", Flag(v.error_bit_field, 16)>>,
     <<"bit_result_timing", Flag(v.error_bit_field, 2)>>,
     <<"speed_of_sound", v.speed_of_sound>>,
     <<"transducer_depth", v.transducer_depth>>,
     <<"heading", v.heading>>,
     <<"pitch", v.pitch>>,
     <<"roll", v.roll>>,
     <<"salinity", v.salinity>>,
     <<"temperature", v.temperature>>,
     <<"mpt_minutes", v.mpt_minutes>>,
     <<"mpt_seconds", FloatSeconds(v.mpt_seconds_component, v.mpt_hundredths_component)>>,
     <<"heading_stdev", v.heading_stdev>>,
     <<"pitch_stdev", v.pitch_stdev>>,
     <<"roll_stdev", v.roll_stdev>>,
     <<"adc_transmit_current", v.adc_transmit_current>>,
     <<"adc_transmit_voltage", v.adc_transmit_voltage>>,
     <<"adc_ambient_temp", v.adc_ambient_temp>>,
     <<"adc_pressure_plus", v.adc_pressure_plus>>,
     <<"adc_pressure_minus", v.adc_pressure_minus>>,
     <<"adc_attitude_temp", v.adc_attitude_temp>>,
     <<"adc_attitude", v.adc_attitiude>>,
     <<"adc_contamination_sensor", v.adc_contamination_sensor>>,
     <<"bus_error_exception", Flag(v.error_status_word_1, 1)>>,
     <<"address_error_exception", Flag(v.error_status_word_1, 2)>>,
     <<"illegal_instruction_exception", Flag(v.error_status_word_1, 4)>>,
     <<"zero_divide_instruction", Flag(v.error_status_word_1, 8)>>,
     <<"emulator_exception", Flag(v.error_status_word_1, 16)>>,
     <<"unassigned_exception", Flag(v.error_status_word_1, 32)>>,
     <<"watchdog_restart_occurred", Flag(v.error_status_word_1, 64)>>,
     <<"battery_saver_power", Flag(v.error_status_word_1, 128)>>,
     <<"pinging", Flag(v.error_status_word_1, 1)>>,
     <<"cold_wakeup_occurred", Flag(v.error_status_word_1, 64)>>,
     <<"unknown_wakeup_occurred", Flag(v.error_status_word_1, 128)>>,
     <<"clock_read_error", Flag(v.error_status_word_3, 1)>>,
     <<"unexpected_alarm", Flag(v.error_status_word_3, 2)>>,
     <<"clock_jump_forward", Flag(v.error_status_word_3, 4)>>,
     <<"clock_jump_backward", Flag(v.error_status_word_3, 8)>>,
     <<"power_fail", Flag(v.error_status_word_4, 8)>>,
     <<"spurious_dsp_interrupt", Flag(v.error_status_word_4, 16)>>,
     <<"spurious_uart_interrupt", Flag(v.error_status_word_4, 32)>>,
     <<"spurious_clock_interrupt", Flag(v.error_status_word_4, 64)>>,
     <<"level_7_interrupt", Flag(v.error_status_word_4, 128)>>,
     <<"pressure", v.pressure>>,
     <<"pressure_variance", v.pressure_variance>> >>

(* lines 738-794, 57 appends *)
BottomTrackOps(b) ==
  << <<"bottom_track_id", b.bottom_track_id>>,
     <<"bt_pings_per_ensemble", b.bt_pings_per_ensemble>>,
     <<"bt_delay_before_reacquire", b.bt_delay_before_reacquire>>,
     <<"bt_corr_magnitude_min", b.bt_corr_magnitude_min>>,
     <<"bt_eval_magnitude_min", b.bt_eval_magnitude_min>>,
     <<"bt_percent_good_min", b.bt_percent_good_min>>,
     <<"bt_mode", b.bt_mode>>,
     <<"bt_error_velocity_max", b.bt_error_velocity_max>>,
     <<"beam1_bt_range_lsb", b.beam1_bt_range_lsb>>,
     <<"beam2_bt_range_lsb", b.beam2_bt_range_lsb>>,
     <<"beam3_bt_range_lsb", b.beam3_bt_range_lsb>>,
     <<"beam4_bt_range_lsb", b.beam4_bt_range_lsb>>,
     <<"eastward_bt_velocity", b.eastward_bt_velocity>>,
     <<"northward_bt_velocity", b.northward_bt_velocity>>,
     <<"upward_bt_velocity", b.upward_bt_velocity>>,
     <<"error_bt_velocity", b.error_bt_velocity>>,
     <<"beam1_bt_correlation", b.beam1_bt_correlation>>,
     <<"beam2_bt_correlation", b.beam2_bt_correlation>>,
     <<"beam3_bt_correlation", b.beam3_bt_correlation>>,
     <<"beam4_bt_correlation", b.beam4_bt_correlation>>,
     <<"beam1_eval_amp", b.beam1_eval_amp>>,
     <<"beam2_eval_amp", b.beam2_eval_amp>>,
     <<"beam3_eval_amp", b.beam3_eval_amp>>,
     <<"beam4_eval_amp", b.beam4_eval_amp>>,
     <<"beam1_bt_percent_good", b.beam1_bt_percent_good>>,
     <<"beam2_bt_percent_good", b.beam2_bt_percent_good>>,
     <<"beam3_bt_percent_good", b.beam3_bt_percent_good>>,
     <<"beam4_bt_percent_good", b.beam4_bt_percent_good>>,
     <<"ref_layer_min", b.ref_layer_min>>,
     <<"ref_layer_near", b.ref_layer_near>>,
     <<"ref_layer_far", b.ref_layer_far>>,
     <<"beam1_ref_layer_velocity", b.beam1_ref_layer_velocity>>,
     <<"beam2_ref_layer_velocity", b.beam2_ref_layer_velocity>>,
     <<"beam3_ref_layer_velocity", b.beam3_ref_layer_velocity>>,
     <<"beam4_ref_layer_velocity", b.beam4_ref_layer_velocity>>,
     <<"beam1_ref_correlation", b.beam1_ref_correlation>>,
     <<"beam2_ref_correlation", b.beam2_ref_correlation>>,
     <<"beam3_ref_correlation", b.beam3_ref_correlation>>,
     <<"beam4_ref_correlation", b.beam4_ref_correlation>>,
     <<"beam1_ref_intensity", b.beam1_ref_intensity>>,
     <<"beam2_ref_intensity", b.beam2_ref_intensity>>,
     <<"beam3_ref_intensity", b.beam3_ref_intensity>>,
     <<"beam4_ref_intensity", b.beam4_ref_intensity>>,
     <<"beam1_ref_percent_good", b.beam1_ref_percent_good>>,
     <<"beam2_ref_percent_good", b.beam2_ref_percent_good>>,
     <<"beam3_ref_percent_good", b.beam3_ref_percent_good>>,
     <<"beam4_ref_percent_good", b.beam4_ref_percent_good>>,
     <<"bt_max_depth", b.bt_max_depth>>,
     <<"beam1_rssi_amplitude", b.beam1_rssi_amplitude>>,
     <<"beam2_rssi_amplitude", b.beam2_rssi_amplitude>>,
     <<"beam3_rssi_amplitude", b.beam3_rssi_amplitude>>,
     <<"beam4_rssi_amplitude", b.beam4_rssi_amplitude>>,
     <<"bt_gain", b.bt_gain>>,
     <<"beam1_bt_range_msb", b.beam1_bt_range_msb>>,
     <<"beam2_bt_range_msb", b.beam2_bt_range_msb>>,
     <<"beam3_bt_range_msb", b.beam3_bt_range_msb>>,
     <<"beam4_bt_range_msb", b.beam4_bt_range_msb>> >>

(* lines 801-857, 57 appends *)
FillBtNanOps ==
  << <<"bottom_track_id", NaN>>,
     <<"bt_pings_per_ensemble", NaN>>,
     <<"bt_delay_before_reacquire", NaN>>,
     <<"bt_corr_magnitude_min", NaN>>,
     <<"bt_eval_magnitude_min", NaN>>,
     <<"bt_percent_good_min", NaN>>,
     <<"bt_mode", NaN>>,
     <<"bt_error_velocity_max", NaN>>,
     <<"beam1_bt_range_lsb", NaN>>,
     <<"beam2_bt_range_lsb", NaN>>,
     <<"beam3_bt_range_lsb", NaN>>,
     <<"beam4_bt_range_lsb", NaN>>,
     <<"eastward_bt_velocity", NaN>>,
     <<"northward_bt_velocity", NaN>>,
     <<"upward_bt_velocity", NaN>>,
     <<"error_bt_velocity", NaN>>,
     <<"beam1_bt_correlation", NaN>>,
     <<"beam2_bt_correlation", NaN>>,
     <<"beam3_bt_correlation", NaN>>,
     <<"beam4_bt_correlation", NaN>>,
     <<"beam1_eval_amp", NaN>>,
     <<"beam2_eval_amp", NaN>>,
     <<"beam3_eval_amp", NaN>>,
     <<"beam4_eval_amp", NaN>>,
     <<"beam1_bt_percent_good", NaN>>,
     <<"beam2_bt_percent_good", NaN>>,
     <<"beam3_bt_percent_good", NaN>>,
     <<"beam4_bt_percent_good", NaN>>,
     <<"ref_layer_min", NaN>>,
     <<"ref_layer_near", NaN>>,
     <<"ref_layer_far", NaN>>,
     <<"beam1_ref_layer_velocity", NaN>>,
     <<"beam2_ref_layer_velocity", NaN>>,
     <<"beam3_ref_layer_velocity", NaN>>,
     <<"beam4_ref_layer_velocity", NaN>>,
     <<"beam1_ref_correlation", NaN>>,
     <<"beam2_ref_correlation", NaN>>,
     <<"beam3_ref_correlation", NaN>>,
     <<"beam4_ref_correlation", NaN>>,
     <<"beam1_ref_intensity", NaN>>,
     <<"beam2_ref_intensity", NaN>>,
     <<"beam3_ref_intensity", NaN>>,
     <<"beam4_ref_intensity", NaN>>,
     <<"beam1_ref_percent_good", NaN>>,
     <<"beam2_ref_percent_good", NaN>>,
     <<"beam3_ref_percent_good", NaN>>,
     <<"beam4_ref_percent_good", NaN>>,
     <<"bt_max_depth", NaN>>,
     <<"beam1_rssi_amplitude", NaN>>,
     <<"beam2_rssi_amplitude", NaN>>,
     <<"beam3_rssi_amplitude", NaN>>,
     <<"beam4_rssi_amplitude", NaN>>,
     <<"bt_gain", NaN>>,
     <<"beam1_bt_range_msb", NaN>>,
     <<"beam2_bt_range_msb", NaN>>,
     <<"beam3_bt_range_msb", NaN>>,
     <<"beam4_bt_range_msb", NaN>> >>

(* DVLdata.__init__: one column per public constant of Names. *)
Columns ==
  HeaderColumns \cup FixedLeaderColumns \cup VariableLeaderColumns
  \cup VelocityColumns \cup CorrelationMagnitudeColumns \cup EchoIntensityColumns
  \cup PercentGoodColumns \cup BottomTrackColumns \cup ChecksumColumns

(* The values a sequence of appends <<column, value>> adds to column c. *)
ValuesFor(ops, c) ==
  LET sel == SelectSeq(ops, LAMBDA o : o[1] = c)
  IN  [i \in 1..Len(sel) |-> sel[i][2]]

(* AppendOps with the new values put before the rows already held. *)
AppendOpsInFront(store, ops) == [c \in DOMAIN store |-> ValuesFor(ops, c) \o store[c]]

(* self._dvl[column].append(value) for every pair of ops, in order. *)
AppendOps(store, ops) == [c \in DOMAIN store |-> store[c] \o ValuesFor(ops, c)]

(* ------------------------------------------------------------------------ *)
(* Exceptions: the type and the source line that raises.                    *)

Raise(t, l) == [type |-> t, line |-> l]

NoExc == Raise("none", 0)

(* Names bound at module level in dvl_parser.py (imports and definitions). *)
(* Neither "log" (line 316) nor "np" (lines 801-857) is among them.        *)
ModuleGlobals ==
  { "re", "unpack", "timegm", "dt", "sys", "DVL_PD0_REGEX", "SampleException",
    "Names", "DVLdata", "DVLparser" }

(* What a section decoder hands back: the exception it raised (or NoExc),  *)
(* the appends it made before that, and the attributes it assigned         *)
(* (<<>> when the assignment was not reached).                             *)
Outcome(e, o, cells, ctt) ==
  [exc |-> e, ops |-> o, num_depth_cells |-> cells, coord_transform_type |-> ctt]

(* len(range(a, b)) for integers a and b *)
RangeLen(a, b) == IF b > a THEN b - a ELSE 0

(* ------------------------------------------------------------------------ *)
(* Section decoders                                                         *)

(* parse_fixed_chunk without the comparisons of lines 440 and 451. *)
parse_fixed_chunkNoConstantChecks(chunk) ==
  IF Len(chunk) # 58 THEN Outcome(Raise("struct.error", 420), <<>>, <<>>, <<>>)
  ELSE
    LET f == UnpackFixed(chunk) IN
    IF f.fixed_leader_id # 0
    THEN Outcome(Raise("SampleException", 423), <<>>, <<>>, <<>>)
    ELSE IF BitAnd(f.sysconfig_frequency, 7) >= Len(frequencies)
    THEN Outcome(Raise("IndexError", 434), FixedOpsA(f), <<f.num_cells>>, <<>>)
    ELSE Outcome(NoExc, FixedOpsA(f) \o FixedOpsB(f) \o FixedOpsC(f) \o FixedOpsD(f),
                 <<f.num_cells>>,
                 <<ShiftRight(BitAnd(f.coord_transform_type, 24), 3)>>)

parse_fixed_chunk(chunk) ==
  IF Len(chunk) # 58 THEN Outcome(Raise("struct.error", 420), <<>>, <<>>, <<>>)
  ELSE
    LET f == UnpackFixed(chunk) IN
    IF f.fixed_leader_id # 0
    THEN Outcome(Raise("SampleException", 423), <<>>, <<>>, <<>>)
    ELSE IF BitAnd(f.sysconfig_frequency, 7) >= Len(frequencies)
    THEN Outcome(Raise("IndexError", 434), FixedOpsA(f), <<f.num_cells>>, <<>>)
    ELSE IF f.data_flag # 0
    THEN Outcome(Raise("SampleException", 441), FixedOpsA(f) \o FixedOpsB(f),
                 <<f.num_cells>>, <<>>)
    ELSE IF f.signal_processing_mode # 1
    THEN Outcome(Raise("SampleException", 452),
                 FixedOpsA(f) \o FixedOpsB(f) \o FixedOpsC(f), <<f.num_cells>>, <<>>)
    ELSE Outcome(NoExc, FixedOpsA(f) \o FixedOpsB(f) \o FixedOpsC(f) \o FixedOpsD(f),
                 <<f.num_cells>>,
                 <<ShiftRight(BitAnd(f.coord_transform_type, 24), 3)>>)

parse_variable_chunk(chunk) ==
  IF Len(chunk) # 60 THEN Outcome(Raise("struct.error", 513), <<>>, <<>>, <<>>)
  ELSE
    LET v == UnpackVariable(chunk) IN
    IF v.variable_leader_id # 128
    THEN Outcome(Raise("SampleException", 516), <<>>, <<>>, <<>>)
    ELSE IF ~ValidDateTime(2000 + v.rtc_year, v.rtc_month, v.rtc_day,
                           v.rtc_hour, v.rtc_minute, v.rtc_second)
    THEN Outcome(Raise("ValueError", 525), VariableOpsA(v), <<>>, <<>>)
    ELSE Outcome(NoExc, VariableOpsA(v) \o VariableOpsB(v), <<>>, <<>>)

parse_velocity_chunk(chunk) ==
  LET N    == ((Len(chunk) - 2) \div 2) \div 4
      rows == RangeLen(1, N)
      beam(b) == [r \in 1..rows |-> S16(chunk, 8 * (r - 1) + 2 + 2 * b)]
  IN  IF Len(Slice(chunk, 0, 2)) # 2
      THEN Outcome(Raise("struct.error", 592), <<>>, <<>>, <<>>)
      ELSE IF U16(chunk, 0) # 256
      THEN Outcome(Raise("SampleException", 594), <<>>, <<>>, <<>>)
      ELSE IF py_major >= 3
      THEN Outcome(Raise("TypeError", 602), << <<"velocity_data_id", U16(chunk, 0)>> >>, <<>>, <<>>)
      ELSE Outcome(NoExc,
                   << <<"velocity_data_id", U16(chunk, 0)>>,
                      <<"water_velocity_east", beam(0)>>,
                      <<"water_velocity_north", beam(1)>>,
                      <<"water_velocity_up", beam(2)>>,
                      <<"error_velocity", beam(3)>> >>, <<>>, <<>>)

parse_corelation_magnitude_chunk(chunk) ==
  LET N    == (Len(chunk) - 2) \div 4
      rows == RangeLen(1, N)
      beam(b) == [r \in 1..rows |-> U8(chunk, 4 * (r - 1) + 2 + b)]
  IN  IF Len(Slice(chunk, 0, 2)) # 2
      THEN Outcome(Raise("struct.error", 623), <<>>, <<>>, <<>>)
      ELSE IF U16(chunk, 0) # 512
      THEN Outcome(Raise("SampleException", 625), <<>>, <<>>, <<>>)
      ELSE IF py_major >= 3
      THEN Outcome(Raise("TypeError", 633), << <<"correlation_magnitude_id", U16(chunk, 0)>> >>, <<>>, <<>>)
      ELSE Outcome(NoExc,
                   << <<"correlation_magnitude_id", U16(chunk, 0)>>,
                      <<"correlation_magnitude_beam1", beam(0)>>,
                      <<"correlation_magnitude_beam2", beam(1)>>,
                      <<"correlation_magnitude_beam3", beam(2)>>,
                      <<"correlation_magnitude_beam4", beam(3)>> >>, <<>>, <<>>)

parse_echo_intensity_chunk(chunk) ==
  LET N    == (Len(chunk) - 2) \div 4
      rows == RangeLen(1, N)
      beam(b) == [r \in 1..rows |-> U8(chunk, 4 * (r - 1) + 2 + b)]
  IN  IF Len(Slice(chunk, 0, 2)) # 2
      THEN Outcome(Raise("struct.error", 655), <<>>, <<>>, <<>>)
      ELSE IF U16(chunk, 0) # 768
      THEN Outcome(Raise("SampleException", 657), <<>>, <<>>, <<>>)
      ELSE IF py_major >= 3
      THEN Outcome(Raise("TypeError", 664), << <<"echo_intensity_id", U16(chunk, 0)>> >>, <<>>, <<>>)
      ELSE Outcome(NoExc,
                   << <<"echo_intensity_id", U16(chunk, 0)>>,
                      <<"echo_intensity_beam1", beam(0)>>,
                      <<"echo_intensity_beam2", beam(1)>>,
                      <<"echo_intensity_beam3", beam(2)>>,
                      <<"echo_intensity_beam4", beam(3)>> >>, <<>>, <<>>)

parse_percent_good_chunk(chunk) ==
  LET N    == (Len(chunk) - 2) \div 4
      rows == RangeLen(1, N)
      beam(b) == [r \in 1..rows |-> U8(chunk, 4 * (r - 1) + 2 + b)]
  IN  IF Len(Slice(chunk, 0, 2)) # 2
      THEN Outcome(Raise("struct.error", 686), <<>>, <<>>, <<>>)
      ELSE IF U16(chunk, 0) # 1024
      THEN Outcome(Raise("SampleException", 688), <<>>, <<>>, <<>>)
      ELSE IF py_major >= 3
      THEN Outcome(Raise("TypeError", 696), << <<"percent_good_id", U16(chunk, 0)>> >>, <<>>, <<>>)
      ELSE Outcome(NoExc,
                   << <<"percent_good_id", U16(chunk, 0)>>,
                      <<"percent_good_3beam", beam(0)>>,
                      <<"percent_transforms_reject", beam(1)>>,
                      <<"percent_bad_beams", beam(2)>>,
                      <<"percent_good_4beam", beam(3)>> >>, <<>>, <<>>)

parse_bottom_track_chunk(chunk) ==
  IF Len(chunk) # 81 THEN Outcome(Raise("struct.error", 733), <<>>, <<>>, <<>>)
  ELSE
    LET b == UnpackBottomTrack(chunk) IN
    IF b.bottom_track_id # 1536
    THEN Outcome(Raise("SampleException", 736), <<>>, <<>>, <<>>)
    ELSE Outcome(NoExc, BottomTrackOps(b), <<>>, <<>>)

(* np is not bound in the module: evaluating np.nan at line 801 raises     *)
(* NameError before the first append.                                      *)
fill_bt_nans ==
  IF "np" \in ModuleGlobals
  THEN Outcome(NoExc, FillBtNanOps, <<>>, <<>>)
  ELSE Outcome(Raise("NameError", 801), <<>>, <<>>, <<>>)

(* ------------------------------------------------------------------------ *)
(* Frame scanning                                                           *)

(* DVL_PD0_REGEX cut down to the two marker bytes. *)
MarkerOnlyRegex(buf, p) ==
  /\ p + 6 <= Len(buf)
  /\ buf[p + 1] = 127 /\ buf[p + 2] = 127

(* DVL_PD0_REGEX matches at position p: 7F 7F, any two bytes, 00, 06 or 07. *)
DVL_PD0_REGEX(buf, p) ==
  /\ p + 6 <= Len(buf)
  /\ buf[p + 1] = 127 /\ buf[p + 2] = 127
  /\ buf[p + 5] = 0
  /\ buf[p + 6] \in {6, 7}

RECURSIVE finditerByDeclaredLength(_, _)
(* finditer for a scanner that, after a match, resumes at the end of the   *)
(* byte range the match declares (start + numBytes + 2) and so never       *)
(* starts a candidate inside an earlier one.                               *)
finditerByDeclaredLength(buf, p) ==
  LET M == { q \in p..(Len(buf) - 6) : DVL_PD0_REGEX(buf, q) } IN
  IF M = {} THEN <<>>
  ELSE LET q == CHOOSE x \in M : \A y \in M : x <= y
       IN  <<q>> \o finditerByDeclaredLength(buf, q + buf[q + 3] + 256 * buf[q + 4] + 2)

RECURSIVE finditer(_, _)
(* [m.start() for m in DVL_PD0_REGEX.finditer(data)] from position p on:   *)
(* the leftmost match at or after p, then the search resumes at its end.   *)
finditer(buf, p) ==
  LET M == { q \in p..(Len(buf) - 6) : DVL_PD0_REGEX(buf, q) } IN
  IF M = {} THEN <<>>
  ELSE LET q == CHOOSE x \in M : \A y \in M : x <= y
       IN  <<q>> \o finditer(buf, q + 6)

(* ------------------------------------------------------------------------ *)
(* _build_parsed_values, by stage                                           *)

RECURSIVE SumRange(_, _, _)
(* The sum of the elements of b at 0-based positions lo .. hi - 1. *)
SumRange(b, lo, hi) ==
  IF hi <= lo THEN 0
  ELSE IF hi = lo + 1 THEN b[lo + 1]
  ELSE LET mid == (lo + hi) \div 2 IN SumRange(b, lo, mid) + SumRange(b, mid, hi)

HexDigit(d) == IF d < 10 THEN 48 + d ELSE 87 + d

(* The characters repr() writes for one byte c inside the given quote. *)
EscapeByte(c, quote) ==
  IF c = quote \/ c = 92 THEN <<92, c>>
  ELSE IF c = 9 THEN <<92, 116>>
  ELSE IF c = 10 THEN <<92, 110>>
  ELSE IF c = 13 THEN <<92, 114>>
  ELSE IF c < 32 \/ c >= 127 THEN <<92, 120, HexDigit(c \div 16), HexDigit(c % 16)>>
  ELSE <<c>>

RECURSIVE JoinRange(_, _, _)
(* ss[lo] \o ... \o ss[hi] *)
JoinRange(ss, lo, hi) ==
  IF hi < lo THEN <<>>
  ELSE IF hi = lo THEN ss[lo]
  ELSE LET mid == (lo + hi) \div 2 IN JoinRange(ss, lo, mid) \o JoinRange(ss, mid + 1, hi)

(* Python 3 str() of a bytes object: the code points of its repr,          *)
(* b'...' with escapes (b"..." when it holds ' and no ").                  *)
BytesRepr(b) ==
  LET held  == { b[i] : i \in 1..Len(b) }
      quote == IF 39 \in held /\ 34 \notin held THEN 34 ELSE 39
  IN  <<98, quote>>
      \o JoinRange([i \in 1..Len(b) |-> EscapeByte(b[i], quote)], 1, Len(b))
      \o <<quote>>

(* data = str(ensemble), as code points: the ensemble itself under         *)
(* Python 2, where the bytes read from the file are a str; its repr under  *)
(* Python 3.                                                               *)
str(ens) == IF py_major < 3 THEN ens ELSE BytesRepr(ens)

(* total after "for i in range(0, n): total += ord(data[i])" *)
ByteTotal(b, n) == SumRange(b, 0, n)

(* VerifyChecksum with the comparison of line 315 left out: a candidate    *)
(* whose trailer differs from the computed checksum is passed on.          *)
VerifyChecksumNoCompare(ens) ==
  IF Len(Slice(ens, 2, 4)) # 2
  THEN [exc |-> Raise("struct.error", 305), checksum |-> 0]
  ELSE
    LET length == U16(ens, 2)
        chars  == str(ens)
    IN
    IF length > Len(chars)
    THEN [exc |-> Raise("IndexError", 311), checksum |-> 0]
    ELSE IF Len(Slice(ens, length, length + 2)) # 2
    THEN [exc |-> Raise("struct.error", 315), checksum |-> 0]
    ELSE [exc |-> NoExc, checksum |-> BitAnd(ByteTotal(chars, length), 65535)]

(* Lines 305-318: the checksum is computed over str(ensemble) and compared *)
(* with the trailer.  A mismatch reaches log.debug, and log is not bound   *)
(* in the module.                                                          *)
VerifyChecksum(ens) ==
  IF Len(Slice(ens, 2, 4)) # 2
  THEN [exc |-> Raise("struct.error", 305), checksum |-> 0]
  ELSE
    LET length == U16(ens, 2)
        chars  == str(ens)
    IN
    IF length > Len(chars)
    THEN [exc |-> Raise("IndexError", 311), checksum |-> 0]
    ELSE
      LET computed == BitAnd(ByteTotal(chars, length), 65535) IN
      IF Len(Slice(ens, length, length + 2)) # 2
      THEN [exc |-> Raise("struct.error", 315), checksum |-> computed]
      ELSE IF computed # U16(ens, length)
      THEN [exc |-> IF "log" \in ModuleGlobals
                    THEN Raise("SampleException", 318)
                    ELSE Raise("NameError", 316),
            checksum |-> computed]
      ELSE [exc |-> NoExc, checksum |-> computed]

(* ParseHeader with the two id bytes read at offsets 2 and 3, the bytes of *)
(* the declared length.                                                    *)
ParseHeaderIdsMisread(ens, checksum) ==
  LET saved == << <<"checksum", checksum>> >> IN
  IF Len(Slice(ens, 0, 6)) # 6
  THEN [exc |-> Raise("struct.error", 324), ops |-> saved, offsets |-> <<>>]
  ELSE
    LET num_data_types == U8(ens, 5)
        header == << <<"header_id", U8(ens, 2)>>,
                     <<"data_source_id", U8(ens, 3)>>,
                     <<"num_bytes", U16(ens, 2)>>,
                     <<"num_data_types", num_data_types>> >>
        offs == [n \in 1..num_data_types |-> Slice(ens, 6 + 2 * (n - 1), 8 + 2 * (n - 1))]
    IN  IF \E n \in 1..num_data_types : Len(offs[n]) # 2
        THEN [exc |-> Raise("struct.error", 335), ops |-> saved \o header,
              offsets |-> <<>>]
        ELSE
          LET offsets == [n \in 1..num_data_types |-> U16(offs[n], 0)] IN
          [exc |-> NoExc,
           ops |-> saved \o header \o << <<"offset_data_types", offsets>> >>,
           offsets |-> offsets]

(* ParseHeader with the offsets collected from the last table entry to the *)
(* first.                                                                  *)
ParseHeaderOffsetsReversed(ens, checksum) ==
  LET saved == << <<"checksum", checksum>> >> IN
  IF Len(Slice(ens, 0, 6)) # 6
  THEN [exc |-> Raise("struct.error", 324), ops |-> saved, offsets |-> <<>>]
  ELSE
    LET num_data_types == U8(ens, 5)
        header == << <<"header_id", U8(ens, 0)>>,
                     <<"data_source_id", U8(ens, 1)>>,
                     <<"num_bytes", U16(ens, 2)>>,
                     <<"num_data_types", num_data_types>> >>
        offs == [n \in 1..num_data_types |-> Slice(ens, 6 + 2 * (n - 1), 8 + 2 * (n - 1))]
    IN  IF \E n \in 1..num_data_types : Len(offs[n]) # 2
        THEN [exc |-> Raise("struct.error", 335), ops |-> saved \o header,
              offsets |-> <<>>]
        ELSE
          LET offsets == [n \in 1..num_data_types |-> U16(offs[num_data_types + 1 - n], 0)] IN
          [exc |-> NoExc,
           ops |-> saved \o header \o << <<"offset_data_types", offsets>> >>,
           offsets |-> offsets]

(* Lines 321-340: the checksum and the header fields are appended, then    *)
(* the offset table is read and appended.                                  *)
ParseHeader(ens, checksum) ==
  LET saved == << <<"checksum", checksum>> >> IN
  IF Len(Slice(ens, 0, 6)) # 6
  THEN [exc |-> Raise("struct.error", 324), ops |-> saved, offsets |-> <<>>]
  ELSE
    LET num_data_types == U8(ens, 5)
        header == << <<"header_id", U8(ens, 0)>>,
                     <<"data_source_id", U8(ens, 1)>>,
                     <<"num_bytes", U16(ens, 2)>>,
                     <<"num_data_types", num_data_types>> >>
        offs == [n \in 1..num_data_types |-> Slice(ens, 6 + 2 * (n - 1), 8 + 2 * (n - 1))]
    IN  IF \E n \in 1..num_data_types : Len(offs[n]) # 2
        THEN [exc |-> Raise("struct.error", 335), ops |-> saved \o header,
              offsets |-> <<>>]
        ELSE
          LET offsets == [n \in 1..num_data_types |-> U16(offs[n], 0)] IN
          [exc |-> NoExc,
           ops |-> saved \o header \o << <<"offset_data_types", offsets>> >>,
           offsets |-> offsets]

(* The 16-bit section type id at an offset (<<>> when the slice is short). *)
DataTypeAt(ens, offset) ==
  IF Len(Slice(ens, offset, offset + 2)) # 2 THEN <<>>
  ELSE <<U16(ens, offset)>>

(* DispatchOffset with a last branch that decodes a section of any other  *)
(* type id as Velocity, its leading id going into velocity_data_id.       *)
DispatchOffsetUnknownAsVelocity(ens, offset, iCells) ==
  LET dt == DataTypeAt(ens, offset) IN
  IF dt = <<>> THEN Outcome(Raise("struct.error", 346), <<>>, <<>>, <<>>)
  ELSE
    LET data_type == dt[1] IN
    IF data_type = 0 THEN parse_fixed_chunk(Slice(ens, offset, offset + 58))
    ELSE IF data_type = 128 THEN parse_variable_chunk(Slice(ens, offset, offset + 60))
    ELSE IF data_type = 256
    THEN IF iCells = <<>> THEN Outcome(Raise("UnboundLocalError", 365), <<>>, <<>>, <<>>)
         ELSE parse_velocity_chunk(Slice(ens, offset, offset + 2 + 8 * iCells[1]))
    ELSE IF data_type = 512
    THEN IF iCells = <<>> THEN Outcome(Raise("UnboundLocalError", 373), <<>>, <<>>, <<>>)
         ELSE parse_corelation_magnitude_chunk(
                Slice(ens, offset, offset + 2 + 4 * iCells[1]))
    ELSE IF data_type = 768
    THEN IF iCells = <<>> THEN Outcome(Raise("UnboundLocalError", 381), <<>>, <<>>, <<>>)
         ELSE parse_echo_intensity_chunk(Slice(ens, offset, offset + 2 + 4 * iCells[1]))
    ELSE IF data_type = 1024
    THEN IF iCells = <<>> THEN Outcome(Raise("UnboundLocalError", 389), <<>>, <<>>, <<>>)
         ELSE parse_percent_good_chunk(Slice(ens, offset, offset + 2 + 4 * iCells[1]))
    ELSE IF data_type = 1536 THEN parse_bottom_track_chunk(Slice(ens, offset, offset + 81))
    ELSE Outcome(NoExc, << <<"velocity_data_id", data_type>> >>, <<>>, <<>>)

(* Lines 343-397, one iteration of "for offset in offsets".  iCells is the *)
(* local of _build_parsed_values: <<>> until a Fixed Leader of this        *)
(* ensemble has been parsed, then <<count>>.                               *)
DispatchOffset(ens, offset, iCells) ==
  LET dt == DataTypeAt(ens, offset) IN
  IF dt = <<>> THEN Outcome(Raise("struct.error", 346), <<>>, <<>>, <<>>)
  ELSE
    LET data_type == dt[1] IN
    IF data_type = 0 THEN parse_fixed_chunk(Slice(ens, offset, offset + 58))
    ELSE IF data_type = 128 THEN parse_variable_chunk(Slice(ens, offset, offset + 60))
    ELSE IF data_type = 256
    THEN IF iCells = <<>> THEN Outcome(Raise("UnboundLocalError", 365), <<>>, <<>>, <<>>)
         ELSE parse_velocity_chunk(Slice(ens, offset, offset + 2 + 8 * iCells[1]))
    ELSE IF data_type = 512
    THEN IF iCells = <<>> THEN Outcome(Raise("UnboundLocalError", 373), <<>>, <<>>, <<>>)
         ELSE parse_corelation_magnitude_chunk(
                Slice(ens, offset, offset + 2 + 4 * iCells[1]))
    ELSE IF data_type = 768
    THEN IF iCells = <<>> THEN Outcome(Raise("UnboundLocalError", 381), <<>>, <<>>, <<>>)
         ELSE parse_echo_intensity_chunk(Slice(ens, offset, offset + 2 + 4 * iCells[1]))
    ELSE IF data_type = 1024
    THEN IF iCells = <<>> THEN Outcome(Raise("UnboundLocalError", 389), <<>>, <<>>, <<>>)
         ELSE parse_percent_good_chunk(Slice(ens, offset, offset + 2 + 4 * iCells[1]))
    ELSE IF data_type = 1536 THEN parse_bottom_track_chunk(Slice(ens, offset, offset + 81))
    ELSE Outcome(NoExc, <<>>, <<>>, <<>>)

(* ------------------------------------------------------------------------ *)
(* Input buffers: PD0 byte streams laid out as the unpack formats of the   *)
(* decoders read them.                                                     *)

(* The largest depth-cell count of a generated Fixed Leader. *)
MaxCells == 2

(* The largest number of ensembles in a generated buffer. *)
MaxEns == 2

(* The largest number of bytes cut from the end of a generated buffer. *)
MaxCut == 3

(* The declared length of the generated all-0xFF candidate. *)
FillLen == 300

LE16(n) == <<n % 256, (n \div 256) % 256>>

RECURSIVE Concat(_)
Concat(ss) == IF ss = <<>> THEN <<>> ELSE Head(ss) \o Concat(Tail(ss))

FixedLeaderBytes(p) ==
  [i \in 1..58 |->
     CASE i - 1 = 4  -> p.sysconfig % 256
       [] i - 1 = 5  -> p.sysconfig \div 256
       [] i - 1 = 6  -> p.data_flag
       [] i - 1 = 8  -> 4
       [] i - 1 = 9  -> p.cells
       [] i - 1 = 16 -> p.spm
       [] i - 1 = 23 -> 1
       [] i - 1 = 24 -> 50
       [] i - 1 = 25 -> p.coord
       [] i - 1 = 27 -> 255
       [] i - 1 = 32 -> p.bin1 % 256
       [] i - 1 = 33 -> p.bin1 \div 256
       [] i - 1 = 34 -> p.pulse % 256
       [] i - 1 = 35 -> p.pulse \div 256
       [] i - 1 = 37 -> p.ref_stop
       [] i - 1 = 54 -> 42
       [] OTHER      -> 0]

VariableLeaderBytes(p) ==
  [i \in 1..60 |->
     CASE i - 1 = 0  -> 128
       [] i - 1 = 2  -> 9
       [] i - 1 = 4  -> 20
       [] i - 1 = 5  -> p.month
       [] i - 1 = 6  -> 15
       [] i - 1 = 7  -> 12
       [] i - 1 = 8  -> 30
       [] i - 1 = 9  -> 45
       [] i - 1 = 10 -> 50
       [] i - 1 = 29 -> 2
       [] i - 1 = 30 -> 25
       [] i - 1 = 42 -> p.status[1]
       [] i - 1 = 43 -> p.status[2]
       [] i - 1 = 44 -> p.status[3]
       [] i - 1 = 45 -> p.status[4]
       [] OTHER      -> 0]

(* Velocity: cell r carries the beam tuple (r, -r, 100 + r, 0). *)
VelocityBytes(p) ==
  <<0, 1>> \o Concat([r \in 1..p.cells |->
                        LE16(r) \o LE16(65536 - r) \o LE16(100 + r) \o LE16(0)])

(* The 8-bit cell sections: cell r carries (base + r, r, 2r, 100). *)
CellBytes(id, base, p) ==
  LE16(id) \o Concat([r \in 1..p.cells |-> <<base + r, r, 2 * r, 100>>])

BottomTrackBytes(p) ==
  [i \in 1..81 |->
     CASE i - 1 = 1  -> 6
       [] i - 1 = 2  -> 1
       [] i - 1 = 16 -> 200
       [] i - 1 = 24 -> 255
       [] i - 1 = 25 -> 255
       [] i - 1 = 76 -> 3
       [] OTHER      -> 0]

SectionBytes(kind, p) ==
  CASE kind = "FL"   -> FixedLeaderBytes(p)
    [] kind = "VL"   -> VariableLeaderBytes(p)
    [] kind = "VEL"  -> VelocityBytes(p)
    [] kind = "COR"  -> CellBytes(512, 10, p)
    [] kind = "ECHO" -> CellBytes(768, 20, p)
    [] kind = "PG"   -> CellBytes(1024, 30, p)
    [] kind = "BT"   -> BottomTrackBytes(p)
    [] kind = "UNK"  -> LE16(1792) \o <<1, 2>>

RECURSIVE TotalLen(_)
TotalLen(ss) == IF ss = <<>> THEN 0 ELSE Len(Head(ss)) + TotalLen(Tail(ss))

(* One ensemble: 6-byte header, offset table, sections, 2-byte checksum.   *)
(* Kind "header" is the 6-byte header alone, declaring 6 bytes and six     *)
(* data types, followed by its checksum.                                   *)
EnsembleBytes(p) ==
  IF p.kind = "fill"
  THEN LET body == <<127, 127>> \o LE16(FillLen) \o <<0, 6>>
                   \o [i \in 1..(FillLen - 6) |-> 255]
       IN  body \o LE16(ByteTotal(body, Len(body)) % 65536)
  ELSE
    LET n       == Len(p.order)
        secs    == [i \in 1..n |-> SectionBytes(p.order[i], p)]
        start(i) == 6 + 2 * n + TotalLen(SubSeq(secs, 1, i - 1))
        table   == Concat([i \in 1..n |->
                             LE16(IF p.badoff /\ i = n THEN 65535 ELSE start(i))])
        body    == IF p.kind = "header"
                   THEN <<127, 127>> \o LE16(6) \o <<0, 6>>
                   ELSE <<127, 127>> \o LE16(6 + 2 * n + TotalLen(secs)) \o <<0, n>>
                        \o table \o Concat(secs)
        sum     == ByteTotal(body, Len(body)) % 65536
        chars   == BytesRepr(body)
    IN  body \o LE16(CASE p.trailer = "sum"     -> sum
                       [] p.trailer = "flipped" -> 65535 - sum
                       [] p.trailer = "repr"    ->
                            ByteTotal(chars, Len(body)) % 65536)

Base(c) ==
  [kind |-> "pd0", order |-> <<"FL", "VL", "VEL", "COR", "ECHO", "PG", "BT">>,
   cells |-> c, data_flag |-> 0, spm |-> 1, sysconfig |-> 3, coord |-> 31,
   month |-> 6, status |-> <<0, 0, 0, 0>>, bin1 |-> 0, pulse |-> 0, ref_stop |-> 0,
   trailer |-> "sum", badoff |-> FALSE]

Orders ==
  { <<"FL", "VL", "VEL", "COR", "ECHO", "PG">>,
    <<"VEL", "FL", "VL", "COR", "ECHO", "PG", "BT">>,
    <<"VL", "COR", "FL", "VEL", "ECHO", "PG", "BT">>,
    <<"VL", "ECHO", "FL", "VEL", "COR", "PG", "BT">>,
    <<"VL", "PG", "FL", "VEL", "COR", "ECHO", "BT">>,
    <<"VL", "VEL", "COR", "ECHO", "PG", "BT">>,
    <<"FL", "VEL", "COR", "ECHO", "PG", "BT">>,
    <<"FL", "VL", "VL", "VEL", "COR", "ECHO", "BT">>,
    <<"FL", "VL", "VEL", "UNK", "ECHO", "PG", "BT">>,
    <<"BT", "PG", "ECHO", "COR", "VEL", "VL", "FL">> }

Valid == { Base(c) : c \in 0..MaxCells }

(* An ensemble without cell sections. *)
Bare == [Base(1) EXCEPT !.order = <<"FL", "VL", "BT", "UNK", "UNK", "UNK">>]

(* Ensembles whose trailer is the sum over the characters of the repr. *)
ReprTemplates ==
  { [t EXCEPT !.trailer = "repr"] :
      t \in { Bare, Base(1),
              [Bare EXCEPT !.order = <<"FL", "VL", "UNK", "UNK", "UNK", "UNK">>],
              [Bare EXCEPT !.order = <<"VL", "VEL", "FL", "BT", "UNK", "UNK">>],
              [Bare EXCEPT !.data_flag = 1], [Bare EXCEPT !.spm = 0],
              [Bare EXCEPT !.month = 13], [Bare EXCEPT !.sysconfig = 6],
              [Bare EXCEPT !.badoff = TRUE] } }

Templates ==
  Valid
  \cup { Bare }
  \cup ReprTemplates
  \cup { [Base(MaxCells) EXCEPT !.order = o] : o \in Orders }
  \cup { [Base(c) EXCEPT !.order = <<"FL", "VL", "VEL", "COR", "ECHO", "PG">>] :
           c \in 0..MaxCells }
  \cup { [Base(1) EXCEPT !.trailer = "flipped"], [Base(1) EXCEPT !.badoff = TRUE],
         [Base(1) EXCEPT !.data_flag = 1], [Base(1) EXCEPT !.spm = 0],
         [Base(1) EXCEPT !.month = 0], [Base(1) EXCEPT !.month = 13],
         [Base(1) EXCEPT !.sysconfig = 6], [Base(1) EXCEPT !.sysconfig = 75],
         [Base(1) EXCEPT !.status = <<255, 255, 255, 255>>],
         [Base(1) EXCEPT !.status = <<0, 255, 0, 0>>],
         [Base(1) EXCEPT !.coord = 10], [Base(1) EXCEPT !.sysconfig = 7],
         [Base(1) EXCEPT !.kind = "fill"],
         [Base(1) EXCEPT !.bin1 = 32639],
         [Base(1) EXCEPT !.kind = "header"],
         [Base(1) EXCEPT !.kind = "header", !.trailer = "repr"],
         [Base(1) EXCEPT !.sysconfig = 57], [Base(1) EXCEPT !.sysconfig = 140],
         [Base(1) EXCEPT !.sysconfig = 258],
         [Bare EXCEPT !.sysconfig = 75, !.trailer = "repr"],
         [Bare EXCEPT !.bin1 = 32639, !.trailer = "repr"],
         [Base(1) EXCEPT !.bin1 = 32639, !.pulse = 10, !.ref_stop = 6],
         [Bare EXCEPT !.bin1 = 32639, !.pulse = 10, !.ref_stop = 6, !.trailer = "repr"] }

(* Complete ensembles one interpreter or the other takes in whole. *)
Whole == Valid \cup { [Bare EXCEPT !.trailer = "repr"] }

(* Ensembles that may precede the last one of a buffer: one that Python 2  *)
(* takes in whole and one that Python 3 does.                              *)
Leading == { Base(MaxCells), [Bare EXCEPT !.trailer = "repr"] }

(* Ensembles that both interpreters refuse. *)
Refused == { [Base(1) EXCEPT !.trailer = "flipped"], [Base(1) EXCEPT !.data_flag = 1],
             [Bare EXCEPT !.data_flag = 1, !.trailer = "repr"] }

(* Up to n copies of one leading ensemble. *)
Prefixes(n) == { [i \in 1..m |-> t] : m \in 0..n, t \in Leading }

(* A buffer is empty, or some leading ensembles and then any ensemble, or  *)
(* a refused ensemble and then a whole one.                                *)
BufferSpecs ==
  { <<>> }
  \cup { Append(s, t) : s \in Prefixes(MaxEns - 1), t \in Templates }
  \cup { <<r, w>> : r \in Refused, w \in Whole }

Cuts(spec) ==
  IF spec # <<>> /\ spec[Len(spec)] \in Whole THEN 0..MaxCut ELSE {0}

BufferBytes(spec, cut) ==
  LET all == Concat([i \in 1..Len(spec) |-> EnsembleBytes(spec[i])])
  IN  SubSeq(all, 1, Len(all) - cut)

(* ------------------------------------------------------------------------ *)
(* The decode run: DVLparser.__init__                                       *)

VARIABLES
  run,                   \* which DVLparser of the process is being constructed: 1 or 2
  first,                 \* history: the store and exception the first one ended with
  data,                  \* the bytes read from the file (line 283)
  record_markerpt,       \* the match positions (line 284)
  k,                     \* 1-based index of the next marker of the for loop
  pc,                    \* position of the run
  ensemble,              \* the candidate slice handed to _build_parsed_values
  checksum,              \* local of _build_parsed_values
  offsets,               \* local of _build_parsed_values
  oi,                    \* 1-based index of the next offset of its for loop
  iCells,                \* local of _build_parsed_values: <<>> while unbound
  bt_not_included,       \* local of _build_parsed_values
  num_depth_cells,       \* self.num_depth_cells: <<>> while unset
  coord_transform_type,  \* self.coord_transform_type: <<>> while unset
  dvl,                   \* self._dvl, the aggregate store: column -> rows
  exc,                   \* the exception that ended the run, or NoExc
  dvl0                   \* history: the store when the current ensemble began

vars ==
  << py_major, run, first, data, record_markerpt, k, pc, ensemble, checksum, offsets, oi, iCells,
     bt_not_included, num_depth_cells, coord_transform_type, dvl, exc, dvl0 >>

Init ==
  /\ py_major \in {2, 3}
  /\ run = 1
  /\ first = [dvl |-> [c \in Columns |-> <<>>], exc |-> NoExc]
  /\ \E spec \in BufferSpecs : \E cut \in Cuts(spec) : data = BufferBytes(spec, cut)
  /\ record_markerpt = <<>>
  /\ k = 1
  /\ pc = "scan"
  /\ ensemble = <<>>
  /\ checksum = 0
  /\ offsets = <<>>
  /\ oi = 1
  /\ iCells = <<>>
  /\ bt_not_included = TRUE
  /\ num_depth_cells = <<>>
  /\ coord_transform_type = <<>>
  /\ dvl = [c \in Columns |-> <<>>]
  /\ exc = NoExc
  /\ dvl0 = [c \in Columns |-> <<>>]

(* Line 284: the record markers are located. *)
Scan ==
  /\ pc = "scan"
  /\ record_markerpt' = finditer(data, 0)
  /\ pc' = "loop"
  /\ UNCHANGED << py_major, run, first, data, k, ensemble, checksum, offsets, oi, iCells, bt_not_included,
                  num_depth_cells, coord_transform_type, dvl, exc, dvl0 >>

(* NextRecord with the slice ending at startpt + numBytes: the candidate   *)
(* is handed over without its two checksum bytes.                          *)
NextRecordDropsTrailer ==
  /\ pc = "loop"
  /\ k <= Len(record_markerpt)
  /\ LET startpt  == record_markerpt[k]
         numBytes == U16(Slice(data, startpt + 2, startpt + 4), 0)
     IN  ensemble' = Slice(data, startpt, startpt + numBytes)
  /\ pc' = "checksum"
  /\ checksum' = 0
  /\ offsets' = <<>>
  /\ oi' = 1
  /\ iCells' = <<>>
  /\ bt_not_included' = TRUE
  /\ dvl0' = dvl
  /\ UNCHANGED << py_major, run, first, data, record_markerpt, k, num_depth_cells, coord_transform_type,
                  dvl, exc >>

(* NextRecord for a decoder that starts each ensemble with the depth-cell  *)
(* count the parser object already holds, self.num_depth_cells, instead of *)
(* an unbound local.                                                       *)
NextRecordKeepsCells ==
  /\ pc = "loop"
  /\ k <= Len(record_markerpt)
  /\ LET startpt  == record_markerpt[k]
         numBytes == U16(Slice(data, startpt + 2, startpt + 4), 0)
     IN  ensemble' = Slice(data, startpt, startpt + numBytes + 2)
  /\ pc' = "checksum"
  /\ checksum' = 0
  /\ offsets' = <<>>
  /\ oi' = 1
  /\ iCells' = num_depth_cells
  /\ bt_not_included' = TRUE
  /\ dvl0' = dvl
  /\ UNCHANGED << py_major, run, first, data, record_markerpt, k, num_depth_cells, coord_transform_type,
                  dvl, exc >>

(* Lines 287-295: the next candidate is sliced and _build_parsed_values    *)
(* is entered.                                                             *)
NextRecord ==
  /\ pc = "loop"
  /\ k <= Len(record_markerpt)
  /\ LET startpt  == record_markerpt[k]
         numBytes == U16(Slice(data, startpt + 2, startpt + 4), 0)
     IN  ensemble' = Slice(data, startpt, startpt + numBytes + 2)
  /\ pc' = "checksum"
  /\ checksum' = 0
  /\ offsets' = <<>>
  /\ oi' = 1
  /\ iCells' = <<>>
  /\ bt_not_included' = TRUE
  /\ dvl0' = dvl
  /\ UNCHANGED << py_major, run, first, data, record_markerpt, k, num_depth_cells, coord_transform_type,
                  dvl, exc >>

(* Lines 305-318. *)
Checksum ==
  /\ pc = "checksum"
  /\ LET r == VerifyChecksum(ensemble)
     IN  /\ checksum' = r.checksum
         /\ exc' = r.exc
         /\ pc' = IF r.exc = NoExc THEN "header" ELSE "raised"
  /\ UNCHANGED << py_major, run, first, data, record_markerpt, k, ensemble, offsets, oi, iCells,
                  bt_not_included, num_depth_cells, coord_transform_type, dvl, dvl0 >>

(* Lines 321-342. *)
Header ==
  /\ pc = "header"
  /\ LET r == ParseHeader(ensemble, checksum)
     IN  /\ dvl' = AppendOps(dvl, r.ops)
         /\ offsets' = r.offsets
         /\ exc' = r.exc
         /\ pc' = IF r.exc = NoExc THEN "dispatch" ELSE "raised"
  /\ oi' = 1
  /\ bt_not_included' = TRUE
  /\ UNCHANGED << py_major, run, first, data, record_markerpt, k, ensemble, checksum, iCells,
                  num_depth_cells, coord_transform_type, dvl0 >>

(* Lines 343-397: the section at the next offset is decoded. *)
Dispatch ==
  /\ pc = "dispatch"
  /\ oi <= Len(offsets)
  /\ LET r == DispatchOffset(ensemble, offsets[oi], iCells)
     IN  /\ dvl' = AppendOps(dvl, r.ops)
         /\ exc' = r.exc
         /\ pc' = IF r.exc = NoExc THEN "dispatch" ELSE "raised"
         /\ oi' = IF r.exc = NoExc THEN oi + 1 ELSE oi
         /\ num_depth_cells' =
              IF r.num_depth_cells # <<>> THEN r.num_depth_cells ELSE num_depth_cells
         /\ iCells' =
              IF r.exc = NoExc /\ r.num_depth_cells # <<>> THEN r.num_depth_cells
              ELSE iCells
         /\ coord_transform_type' =
              IF r.coord_transform_type # <<>> THEN r.coord_transform_type
              ELSE coord_transform_type
         /\ bt_not_included' =
              IF r.exc = NoExc /\ DataTypeAt(ensemble, offsets[oi]) = <<1536>> THEN FALSE
              ELSE bt_not_included
  /\ UNCHANGED << py_major, run, first, data, record_markerpt, k, ensemble, checksum, offsets, dvl0 >>

(* Lines 399-400, and the return to the loop of __init__. *)
EndEnsemble ==
  /\ pc = "dispatch"
  /\ oi > Len(offsets)
  /\ LET r == IF bt_not_included THEN fill_bt_nans ELSE Outcome(NoExc, <<>>, <<>>, <<>>)
     IN  /\ dvl' = AppendOps(dvl, r.ops)
         /\ exc' = r.exc
         /\ pc' = IF r.exc = NoExc THEN "loop" ELSE "raised"
         /\ k' = IF r.exc = NoExc THEN k + 1 ELSE k
  /\ UNCHANGED << py_major, run, first, data, record_markerpt, ensemble, checksum, offsets, oi, iCells,
                  bt_not_included, num_depth_cells, coord_transform_type, dvl0 >>

(* The for loop of __init__ is exhausted: the run returns normally. *)
Finish ==
  /\ pc = "loop"
  /\ k > Len(record_markerpt)
  /\ pc' = "done"
  /\ UNCHANGED << py_major, run, first, data, record_markerpt, k, ensemble, checksum, offsets, oi, iCells,
                  bt_not_included, num_depth_cells, coord_transform_type, dvl, exc, dvl0 >>

(* Rerun with the store of the first parser carried over to the second,    *)
(* as it would be were the column lists shared between DVLdata objects.    *)
RerunSharingStore ==
  /\ pc \in {"done", "raised"}
  /\ run = 1
  /\ run' = 2
  /\ first' = [dvl |-> dvl, exc |-> exc]
  /\ record_markerpt' = <<>>
  /\ k' = 1
  /\ pc' = "scan"
  /\ ensemble' = <<>>
  /\ checksum' = 0
  /\ offsets' = <<>>
  /\ oi' = 1
  /\ iCells' = <<>>
  /\ bt_not_included' = TRUE
  /\ num_depth_cells' = <<>>
  /\ coord_transform_type' = <<>>
  /\ exc' = NoExc
  /\ dvl0' = dvl
  /\ UNCHANGED << py_major, data, dvl >>

(* A second DVLparser is constructed on the same file once the first       *)
(* construction has returned or raised: line 280 gives it a new DVLdata,   *)
(* whose __init__ (lines 257-263) binds a new empty list to every column,  *)
(* and the new object has no num_depth_cells or coord_transform_type.      *)
Rerun ==
  /\ pc \in {"done", "raised"}
  /\ run = 1
  /\ run' = 2
  /\ first' = [dvl |-> dvl, exc |-> exc]
  /\ record_markerpt' = <<>>
  /\ k' = 1
  /\ pc' = "scan"
  /\ ensemble' = <<>>
  /\ checksum' = 0
  /\ offsets' = <<>>
  /\ oi' = 1
  /\ iCells' = <<>>
  /\ bt_not_included' = TRUE
  /\ num_depth_cells' = <<>>
  /\ coord_transform_type' = <<>>
  /\ dvl' = [c \in Columns |-> <<>>]
  /\ exc' = NoExc
  /\ dvl0' = [c \in Columns |-> <<>>]
  /\ UNCHANGED << py_major, data >>

Next ==
  Scan \/ NextRecord \/ Checksum \/ Header \/ Dispatch \/ EndEnsemble \/ Finish \/ Rerun

Spec == Init /\ [][Next]_vars

(* ------------------------------------------------------------------------ *)
(* Properties                                                               *)

(* _build_parsed_values has returned for the candidate held in ensemble,   *)
(* and dvl0 is the store as it was when that call began.                   *)
Returned == pc \in {"loop", "done"} /\ k > 1

(* The rows of column c appended since the current ensemble began. *)
NewRows(c) == SubSeq(dvl[c], Len(dvl0[c]) + 1, Len(dvl[c]))

(* The candidate carries its trailer and the trailer differs from the sum  *)
(* of the bytes before it, modulo 65536.                                   *)
StoredChecksumDiffers(ens) ==
  /\ Len(ens) >= 4
  /\ LET n == ens[3] + 256 * ens[4]
     IN  /\ n + 2 <= Len(ens)
         /\ SumRange(ens, 0, n) % 65536 # ens[n + 1] + 256 * ens[n + 2]

(* The candidate carries its trailer and the trailer equals that sum. *)
StoredChecksumMatches(ens) ==
  /\ Len(ens) >= 4
  /\ LET n == ens[3] + 256 * ens[4]
     IN  /\ n + 2 <= Len(ens)
         /\ SumRange(ens, 0, n) % 65536 = ens[n + 1] + 256 * ens[n + 2]

(* The candidate at the current marker declares more bytes than the buffer *)
(* holds: startpt + numBytes + 2 exceeds the buffer length.                *)
CandidateTruncated ==
  /\ k <= Len(record_markerpt)
  /\ LET startpt == record_markerpt[k]
     IN  startpt + (data[startpt + 3] + 256 * data[startpt + 4]) + 2 > Len(data)

(* The section type ids the offsets of the current ensemble resolve to. *)
ResolvedTypes == { DataTypeAt(ensemble, offsets[i]) : i \in 1..Len(offsets) }

(* The per-beam columns of the four cell-indexed sections. *)
CellColumns ==
  (VelocityColumns \cup CorrelationMagnitudeColumns \cup EchoIntensityColumns
   \cup PercentGoodColumns)
  \ {"velocity_data_id", "correlation_magnitude_id", "echo_intensity_id",
     "percent_good_id"}

(* C1: after a decode run completes, every column of the store has the     *)
(* same length N, the number of accepted ensembles.                        *)
C1_ColumnsEqualLength ==
  pc = "done" => \A c \in Columns : Len(dvl[c]) = k - 1

(* C2: after an ensemble is rejected for a checksum mismatch or a          *)
(* structural violation, decoding resumes at the next marker: a run never  *)
(* ends at such a rejection while later markers are left unprocessed.      *)
C2_ResumesAtNextMarker ==
  (pc = "raised" /\ (exc.line \in {316, 318} \/ exc.type = "SampleException"))
    => k >= Len(record_markerpt)

(* C3: when an ensemble is rejected for a structural violation in a        *)
(* section, every column of the store is unchanged from its value before   *)
(* that ensemble was started.                                              *)
C3_NoPartialMerge ==
  (pc = "raised" /\ exc.type = "SampleException") => dvl = dvl0

(* The candidate carries its trailer, the validator computes a checksum    *)
(* for it (line 313), and the two differ.                                  *)
ComputedChecksumDiffers(ens) ==
  /\ Len(ens) >= 4
  /\ LET n == ens[3] + 256 * ens[4]
     IN  /\ n + 2 <= Len(ens)
         /\ n <= Len(str(ens))
         /\ SumRange(str(ens), 0, n) % 65536 # ens[n + 1] + 256 * ens[n + 2]

(* C4: an ensemble whose stored checksum differs from the computed one is  *)
(* rejected before anything is appended: no column receives a value from   *)
(* it.                                                                     *)
C4_MismatchAppendsNothing ==
  ComputedChecksumDiffers(ensemble) => (dvl = dvl0 /\ pc \in {"checksum", "raised"})

(* C4 witness: an ensemble whose trailer is the complement of its byte sum *)
(* has been rejected after an earlier ensemble was accepted, so the store  *)
(* it leaves alone is not empty.                                           *)
C4_Witness ==
  /\ pc = "raised"
  /\ ComputedChecksumDiffers(ensemble)
  /\ StoredChecksumDiffers(ensemble)
  /\ dvl0["checksum"] # <<>>

(* C5: a candidate whose declared length runs past the end of the buffer   *)
(* ends the run without a crash.                                           *)
C5_TruncationEndsWithoutCrash ==
  ~(pc = "raised" /\ CandidateTruncated)

(* C6: for an ensemble none of whose offsets resolves to type 1536 the     *)
(* sentinel is appended exactly once to every Bottom Track column, no      *)
(* error is raised and the ensemble is aggregated.                         *)
C6_MissingBottomTrackFilled ==
  ((Returned \/ (pc = "raised" /\ exc.line \in 801..857)) /\ <<1536>> \notin ResolvedTypes)
    => (Returned /\ \A c \in BottomTrackColumns : NewRows(c) = <<NaN>>)

(* C7: for every accepted ensemble, each per-beam sequence appended by a   *)
(* cell-indexed section has the length num_cells decoded from the same     *)
(* ensemble's Fixed Leader.                                                *)
C7_BeamLengthIsCellCount ==
  Returned =>
    \A c \in CellColumns : \A i \in 1..Len(NewRows(c)) :
      /\ NewRows("num_cells") # <<>>
      /\ Len(NewRows(c)[i]) = NewRows("num_cells")[1]

(* C8: the Fixed Leader is decoded before any cell-indexed section         *)
(* whatever the order of the offsets: an ensemble that has a Fixed Leader  *)
(* never reaches a cell-indexed section with the cell count still unknown. *)
C8_FixedLeaderDecodedFirst ==
  ~(/\ pc = "raised"
    /\ exc.type = "UnboundLocalError"
    /\ \E i \in 1..Len(offsets) : DataTypeAt(ensemble, offsets[i]) = <<0>>)

(* C9: no per-ensemble corruption makes the run raise: an offset outside   *)
(* the slice (346), a short section record (420, 513, 733), an invalid     *)
(* date (525), a frequency code outside the table (434), a cell-indexed    *)
(* section with no Fixed Leader (365, 373, 381, 389).                      *)
C9_CorruptionNeverRaises ==
  pc = "raised" => exc.line \notin {346, 420, 513, 733, 525, 434, 365, 373, 381, 389}

(* C10: the checksum validation passes a candidate if and only if the sum  *)
(* of its bytes at offsets 0 .. declaredLength - 1, modulo 65536, equals   *)
(* the little-endian 16-bit value at declaredLength, declaredLength + 1.   *)
C10_ChecksumPassesIff ==
  /\ pc \in {"header", "dispatch"} => StoredChecksumMatches(ensemble)
  /\ (pc = "raised" /\ exc.line \in 305..318) => ~StoredChecksumMatches(ensemble)

(* The 0-based positions of the buffer where the marker bytes 7F 7F stand. *)
MarkerPositions == { p \in 0..(Len(data) - 2) : data[p + 1] = 127 /\ data[p + 2] = 127 }

(* C11: a candidate starts at position p only if the six bytes at p..p+5   *)
(* are 7F, 7F, any, any, 00, and 06 or 07; marker bytes not followed in    *)
(* that way never start a candidate.                                       *)
C11_CandidateOnlyAtFullPattern ==
  /\ \A i \in 1..Len(record_markerpt) :
       LET p == record_markerpt[i] IN
       /\ p + 6 <= Len(data)
       /\ data[p + 1] = 127 /\ data[p + 2] = 127
       /\ data[p + 5] = 0 /\ data[p + 6] \in {6, 7}
  /\ pc \in {"checksum", "header", "dispatch", "raised"} =>
       /\ Len(ensemble) >= 2
       /\ ensemble[1] = 127 /\ ensemble[2] = 127

(* C11 witness: the scan is over and the buffer holds marker bytes, inside *)
(* a Fixed Leader, that started no candidate.                              *)
C11_Witness ==
  /\ pc # "scan"
  /\ record_markerpt # <<>>
  /\ \E p \in MarkerPositions :
       \A i \in 1..Len(record_markerpt) : record_markerpt[i] # p

(* The decoder is at work on the candidate of marker k. *)
InEnsemble == pc \in {"checksum", "header", "dispatch", "raised"}

(* C12: the candidate handed to the decoder for the match at p is exactly  *)
(* buffer[p : p + numBytes + 2], numBytes being the little-endian 16-bit   *)
(* value at buffer[p+2 : p+4]; when the buffer holds that many bytes the   *)
(* candidate ends with the two checksum bytes.                             *)
C12_CandidateRange ==
  InEnsemble =>
    LET p        == record_markerpt[k]
        numBytes == data[p + 3] + 256 * data[p + 4]
        held     == IF p + numBytes + 2 <= Len(data) THEN numBytes + 2 ELSE Len(data) - p
    IN  /\ ensemble = [i \in 1..held |-> data[p + i]]
        /\ p + numBytes + 2 <= Len(data) =>
             /\ Len(ensemble) = numBytes + 2
             /\ ensemble[numBytes + 1] = data[p + numBytes + 1]
             /\ ensemble[numBytes + 2] = data[p + numBytes + 2]

(* C12 witness: the second candidate of a buffer, complete, has been       *)
(* sliced at a position past the start of the buffer.                      *)
C12_Witness ==
  /\ pc = "header"
  /\ k = 2
  /\ record_markerpt[k] > 0
  /\ Len(ensemble) = ensemble[3] + 256 * ensemble[4] + 2

(* The constant each section's id column may hold. *)
SectionId ==
  [fixed_leader_id |-> 0, variable_leader_id |-> 128, velocity_data_id |-> 256,
   correlation_magnitude_id |-> 512, echo_intensity_id |-> 768,
   percent_good_id |-> 1024, bottom_track_id |-> 1536]

(* C13: every value of a section's id column is the constant of its kind   *)
(* (bottom_track_id may also hold the sentinel): a chunk with another      *)
(* leading id is never decoded into that section's columns.                *)
C13_SectionIdsAreConstants ==
  \A c \in DOMAIN SectionId : \A i \in 1..Len(dvl[c]) :
    \/ dvl[c][i] = SectionId[c]
    \/ c = "bottom_track_id" /\ dvl[c][i] = NaN

(* C13 witness: an ensemble with a section of type id 1792 among its       *)
(* offsets has been aggregated, with Velocity and Bottom Track decoded.    *)
C13_Witness ==
  /\ Returned
  /\ <<1792>> \in ResolvedTypes
  /\ NewRows("velocity_data_id") # <<>>
  /\ NewRows("bottom_track_id") # <<>>

(* The 0-based offsets of the current ensemble that resolve to a Fixed     *)
(* Leader (type id 0).                                                     *)
FixedLeaderOffsets ==
  { offsets[i] : i \in { j \in 1..Len(offsets) : DataTypeAt(ensemble, offsets[j]) = <<0>> } }

(* C14: every value of the data_flag column is 0 and every value of the    *)
(* signal_processing_mode column is 1, and an ensemble whose Fixed Leader  *)
(* has another data_flag (byte 6) or signal_processing_mode (byte 16) is   *)
(* not aggregated.                                                         *)
C14_FixedLeaderConstants ==
  /\ \A i \in 1..Len(dvl["data_flag"]) : dvl["data_flag"][i] = 0
  /\ \A i \in 1..Len(dvl["signal_processing_mode"]) : dvl["signal_processing_mode"][i] = 1
  /\ Returned =>
       \A o \in FixedLeaderOffsets :
         (o + 58 <= Len(ensemble)) => (ensemble[o + 7] = 0 /\ ensemble[o + 17] = 1)

(* C14 witness: a Fixed Leader with data_flag 0 and signal_processing_mode *)
(* 0 has been refused at line 452, after its data_flag was stored.         *)
C14_Witness ==
  /\ pc = "raised"
  /\ exc = Raise("SampleException", 452)
  /\ NewRows("data_flag") = <<0>>
  /\ NewRows("signal_processing_mode") = <<>>

(* C15: every value of the header_id column and of the data_source_id      *)
(* column is 127 (0x7F); a candidate whose first two bytes are not the     *)
(* marker bytes has no header fields appended.                             *)
C15_HeaderIdsAreMarker ==
  /\ \A i \in 1..Len(dvl["header_id"]) : dvl["header_id"][i] = 127
  /\ \A i \in 1..Len(dvl["data_source_id"]) : dvl["data_source_id"][i] = 127
  /\ NewRows("header_id") # <<>> => (ensemble[1] = 127 /\ ensemble[2] = 127)

(* C15 witness: the header fields of a second ensemble have been appended. *)
C15_Witness ==
  /\ pc = "dispatch"
  /\ NewRows("header_id") = <<127>>
  /\ NewRows("data_source_id") = <<127>>
  /\ dvl0["header_id"] = <<127>>

(* The offsets of the current ensemble that resolve to a Fixed Leader, in  *)
(* table order.                                                            *)
FixedLeaderSeq ==
  LET IsFixed(o) == DataTypeAt(ensemble, o) = <<0>> IN SelectSeq(offsets, IsFixed)

(* The sysconfig value of the Fixed Leader at 0-based offset o: the        *)
(* little-endian 16-bit value at its bytes 4 and 5.                        *)
SysconfigAt(o) == ensemble[o + 5] + 256 * ensemble[o + 6]

(* The acoustic frequency table of the claim, indexed from 0. *)
FrequencyTable == [i \in 0..5 |-> <<75, 150, 300, 600, 1200, 2400>>[i + 1]]

(* C16: the values the Fixed Leader decoder appends for a sysconfig value  *)
(* s are frequency = table[s mod 8], beam pattern = bit 3, head attached = *)
(* bit 6, vertical orientation = bit 7.                                    *)
C16_SysconfigMapping ==
  \A i \in 1..Len(NewRows("sysconfig_frequency")) :
    LET sys == SysconfigAt(FixedLeaderSeq[i]) IN
    /\ sys % 8 \in DOMAIN FrequencyTable
    /\ NewRows("sysconfig_frequency")[i] = FrequencyTable[sys % 8]
    /\ NewRows("sysconfig_beam_pattern")[i] = (sys \div 8) % 2
    /\ NewRows("sysconfig_head_attached")[i] = (sys \div 64) % 2
    /\ NewRows("sysconfig_vertical_orientation")[i] = (sys \div 128) % 2

(* C16 witness: a Fixed Leader with sysconfig 0b00000011 has been decoded  *)
(* to frequency 600, beam pattern 0 and head attached 0.                   *)
C16_Witness ==
  /\ FixedLeaderSeq # <<>>
  /\ SysconfigAt(FixedLeaderSeq[1]) = 3
  /\ NewRows("sysconfig_frequency") = <<600>>
  /\ NewRows("sysconfig_beam_pattern") = <<0>>
  /\ NewRows("sysconfig_head_attached") = <<0>>

C18_ChecksumColumnRoundTrip ==
  /\ \A i \in 1..Len(dvl["checksum"]) : dvl["checksum"][i] \in 0..65535
  /\ Returned =>
       LET n == ensemble[3] + 256 * ensemble[4] IN
       /\ NewRows("checksum") = <<ensemble[n + 1] + 256 * ensemble[n + 2]>>
       /\ NewRows("checksum") = <<SumRange(ensemble, 0, n) % 65536>>

(* The declared length of the candidate at the i-th marker. *)
NumBytesAtMarker(i) ==
  data[record_markerpt[i] + 3] + 256 * data[record_markerpt[i] + 4]

(* Row i of the header columns is the row of the ensemble at the i-th      *)
(* marker position.                                                        *)
RowsInMarkerOrder ==
  \A i \in 1..Len(dvl["num_bytes"]) :
    /\ i <= Len(record_markerpt)
    /\ i <= k
    /\ dvl["num_bytes"][i] = NumBytesAtMarker(i)
    /\ dvl["checksum"][i] =
         LET e == record_markerpt[i] + NumBytesAtMarker(i)
         IN  data[e + 1] + 256 * data[e + 2]

(* Within a run every step leaves the rows a column holds where they are   *)
(* and puts new rows after them, and only for the ensemble at marker k.    *)
RowsOnlyAppended ==
  run' = run =>
    \A c \in Columns :
      /\ Len(dvl'[c]) >= Len(dvl[c])
      /\ SubSeq(dvl'[c], 1, Len(dvl[c])) = dvl[c]
      /\ Len(dvl'[c]) > Len(dvl[c]) => (k' <= Len(record_markerpt) /\ k' >= k /\ dvl0' = dvl0)

(* C19: rows are appended in input order: the row of the ensemble at an    *)
(* earlier marker position precedes the row of one at a later position in  *)
(* every column, and no row of a later ensemble is appended before all     *)
(* rows of an earlier one.                                                 *)
C19_RowsInInputOrder == [](RowsInMarkerOrder) /\ [][RowsOnlyAppended]_vars

(* C19 witness: two ensembles of different declared lengths have been      *)
(* aggregated.                                                             *)
C19_Witness ==
  /\ Returned
  /\ k = 3
  /\ Len(dvl["num_bytes"]) = 2
  /\ dvl["num_bytes"][1] # dvl["num_bytes"][2]

(* The validator has passed the current ensemble and the Offset Table      *)
(* Reader has run on it.                                                   *)
PastReader == pc = "dispatch" \/ Returned \/ (pc = "raised" /\ exc.line > 318)

(* The ensemble holds the whole of the table its byte 5 announces. *)
TableHeld == Len(ensemble) >= 6 /\ Len(ensemble) >= 6 + 2 * ensemble[6]

(* The table read from the bytes: entry j (from 1) is the little-endian    *)
(* 16-bit value at bytes 6 + 2(j-1) and 7 + 2(j-1).                        *)
TableOffsets == [j \in 1..ensemble[6] |-> ensemble[5 + 2 * j] + 256 * ensemble[6 + 2 * j]]

(* How many of the first m offsets resolve to the section of id column c. *)
SectionsAmong(c, m) ==
  Cardinality({ j \in 1..m : DataTypeAt(ensemble, offsets[j]) = <<SectionId[c]>> })

(* The row appended to offset_data_types is the table, the dispatcher      *)
(* walks that same sequence, and the sections decoded so far are those of  *)
(* the offsets before position oi (and perhaps the one at oi, under way).  *)
TableAppendedAndFollowed ==
  /\ NewRows("offset_data_types") = <<TableOffsets>>
  /\ offsets = TableOffsets
  /\ \A c \in DOMAIN SectionId :
       /\ Len(NewRows(c)) >= SectionsAmong(c, oi - 1)
       /\ Len(NewRows(c)) <= SectionsAmong(c, Min(oi, Len(offsets)))

KnownTypeIds == {0, 128, 256, 512, 768, 1024, 1536}

(* The offsets of the current ensemble that resolve to a type id outside   *)
(* the seven known constants.                                              *)
UnknownTypeOffsets ==
  { j \in 1..Len(offsets) :
      /\ DataTypeAt(ensemble, offsets[j]) # <<>>
      /\ DataTypeAt(ensemble, offsets[j])[1] \notin KnownTypeIds }

(* C21: an ensemble with an offset whose section type id is none of the    *)
(* seven known constants is skipped: once the decoder has returned from    *)
(* it, no column holds a row of it.                                        *)
C21_UnknownTypeSkipsEnsemble ==
  (Returned /\ UnknownTypeOffsets # {}) => dvl = dvl0

(* C22: the value appended to sysconfig_sensor_config for a Fixed Leader   *)
(* with sysconfig value s is bits 4-5 of s, (s AND 0b00110000) shifted     *)
(* right by 4, whatever the frequency bits 0-2 are.                        *)
C22_SensorConfigIsBits45 ==
  \A i \in 1..Len(NewRows("sysconfig_sensor_config")) :
    NewRows("sysconfig_sensor_config")[i] = (SysconfigAt(FixedLeaderSeq[i]) \div 16) % 4

(* The coordinate-transform byte of the Fixed Leader at 0-based offset o:  *)
(* its byte 25.                                                            *)
CoordByteAt(o) == ensemble[o + 26]

(* C23: for a Fixed Leader with coordinate-transform byte c the appended   *)
(* transform type is bits 3-4 of c and equals the coord_transform_type     *)
(* attribute, tilts-used is bit 2, three-beam-solution is bit 1 and        *)
(* bin-mapping is bit 0.                                                   *)
C23_CoordTransformExpansion ==
  \A i \in 1..Len(NewRows("coord_transform_type")) :
    LET c == CoordByteAt(FixedLeaderSeq[i]) IN
    /\ NewRows("coord_transform_type")[i] = (c \div 8) % 4
    /\ i = Len(NewRows("coord_transform_type")) =>
         coord_transform_type = <<NewRows("coord_transform_type")[i]>>
    /\ NewRows("coord_transform_tilts")[i] = (c \div 4) % 2
    /\ NewRows("coord_transform_beams")[i] = (c \div 2) % 2
    /\ NewRows("coord_transform_mapping")[i] = c % 2

(* The named flag columns the Variable Leader decoder fills from the       *)
(* status/error bytes (lines 560-579).                                     *)
StatusFlagColumns ==
  { "bus_error_exception", "address_error_exception", "illegal_instruction_exception",
    "zero_divide_instruction", "emulator_exception", "unassigned_exception",
    "watchdog_restart_occurred", "battery_saver_power", "pinging",
    "cold_wakeup_occurred", "unknown_wakeup_occurred", "clock_read_error",
    "unexpected_alarm", "clock_jump_forward", "clock_jump_backward", "power_fail",
    "spurious_dsp_interrupt", "spurious_uart_interrupt", "spurious_clock_interrupt",
    "level_7_interrupt" }

(* The 0-based positions of error_status_word_1..4 in the chunk, and the   *)
(* masks of the bits of a byte.                                            *)
StatusBytes == 42..45

BitMasks == {1, 2, 4, 8, 16, 32, 64, 128}

(* Byte b with the bit of mask m inverted. *)
FlipBit(b, m) == IF (b \div m) % 2 = 1 THEN b - m ELSE b + m

(* The chunk with one bit of its byte w (0-based) inverted. *)
FlippedChunk(chunk, w, m) == [chunk EXCEPT ![w + 1] = FlipBit(chunk[w + 1], m)]

(* What the Variable Leader decoder appends to each flag column for a      *)
(* chunk.                                                                  *)
FlagsOf(chunk) ==
  [c \in StatusFlagColumns |-> ValuesFor(parse_variable_chunk(chunk).ops, c)]

(* The dispatcher has just decoded a Variable Leader. *)
JustDecodedVariableLeader ==
  /\ pc = "dispatch"
  /\ oi > 1
  /\ DataTypeAt(ensemble, offsets[oi - 1]) = <<128>>

(* C24: for a decoded Variable Leader, each of the four status/error bytes *)
(* is read by at least one named flag column (inverting some bit of the    *)
(* byte changes what the decoder appends to it), and no two flag columns   *)
(* read the same bit of the same byte.                                     *)
C24_AllStatusBytesExpanded ==
  JustDecodedVariableLeader =>
    LET chunk    == Slice(ensemble, offsets[oi - 1], offsets[oi - 1] + 60)
        base     == FlagsOf(chunk)
        flip     == [wm \in StatusBytes \X BitMasks |->
                       FlagsOf(FlippedChunk(chunk, wm[1], wm[2]))]
        Reads(c) == { wm \in StatusBytes \X BitMasks : flip[wm][c] # base[c] }
    IN  /\ \A c \in StatusFlagColumns :
             /\ NewRows(c) # <<>>
             /\ base[c] = <<NewRows(c)[Len(NewRows(c))]>>
        /\ \A w \in StatusBytes :
             \E c \in StatusFlagColumns, m \in BitMasks : <<w, m>> \in Reads(c)
        /\ \A c1, c2 \in StatusFlagColumns :
             c1 # c2 => Reads(c1) \cap Reads(c2) = {}

(* The columns some decoder appends to: all but low_latency_trigger, which *)
(* no line of the parser names after DVLdata.__init__.                     *)
WrittenColumns == Columns \ {"low_latency_trigger"}

(* The section type ids the offset table of the candidate resolves to, in  *)
(* table order, read from the bytes.                                       *)
TableTypes == [j \in 1..Len(TableOffsets) |-> DataTypeAt(ensemble, TableOffsets[j])]

(* How many entries of the table resolve to type id t. *)
CountOf(t) == Cardinality({ j \in 1..Len(TableOffsets) : TableTypes[j] = <<t>> })

(* The candidate is checksum-valid and its table lists a Fixed Leader      *)
(* first, exactly one section of each of the six mandatory kinds, at most  *)
(* one Bottom Track and nothing else, with data_flag 0 and                 *)
(* signal_processing_mode 1.                                               *)
WellFormedEnsemble ==
  /\ StoredChecksumMatches(ensemble)
  /\ TableHeld
  /\ TableTypes[1] = <<0>>
  /\ \A t \in {0, 128, 256, 512, 768, 1024} : CountOf(t) = 1
  /\ CountOf(1536) <= 1
  /\ Len(TableOffsets) = 6 + CountOf(1536)
  /\ LET o == TableOffsets[1]
     IN  /\ o + 58 <= Len(ensemble)
         /\ ensemble[o + 7] = 0
         /\ ensemble[o + 17] = 1

(* Every written column holds one row more than when the ensemble began,   *)
(* after the rows it held then.                                            *)
OneRowEverywhere ==
  \A c \in WrittenColumns :
    /\ Len(dvl[c]) = Len(dvl0[c]) + 1
    /\ SubSeq(dvl[c], 1, Len(dvl0[c])) = dvl0[c]

(* C25: once the decoder is through with a checksum-valid ensemble of one  *)
(* Fixed Leader (first), one each of the five other mandatory sections and *)
(* at most one Bottom Track, with data_flag 0 and signal_processing_mode   *)
(* 1, it has returned normally and every column that any decoder writes    *)
(* holds exactly one row more, the earlier rows unchanged.                 *)
C25_WellFormedEnsembleAddsOneRow ==
  (WellFormedEnsemble /\ (pc = "raised" \/ Returned)) => (Returned /\ OneRowEverywhere)

(* The offsets of the current ensemble resolve to all seven section kinds. *)
AllSevenKinds == \A t \in KnownTypeIds : <<t>> \in ResolvedTypes

(* C26: the columns of the store are those DVLdata.__init__ creates, one   *)
(* per constant of Names, and once an ensemble carrying all seven section  *)
(* kinds has been decoded each of them has gained a row: none stays empty. *)
C26_EveryColumnAppended ==
  /\ DOMAIN dvl = Columns
  /\ (Returned /\ AllSevenKinds) => \A c \in Columns : NewRows(c) # <<>>

(* The dispatcher walked every offset of the current ensemble without     *)
(* meeting a Bottom Track, and line 400 has called fill_bt_nans.           *)
FillCalled ==
  /\ bt_not_included
  /\ \/ Returned
     \/ pc = "raised" /\ exc.line \in 796..857

(* C27: the Bottom Track columns are equal in length to each other, every  *)
(* accepted ensemble has added exactly one row to each of them, and a call *)
(* of fill_bt_nans has appended exactly once to each of the columns that   *)
(* parse_bottom_track_chunk appends to.                                    *)
C27_BottomTrackFilledOrParsed ==
  /\ \A c1, c2 \in BottomTrackColumns : Len(dvl[c1]) = Len(dvl[c2])
  /\ Returned => \A c \in BottomTrackColumns : Len(NewRows(c)) = 1
  /\ FillCalled => \A c \in BottomTrackColumns : Len(NewRows(c)) = 1

(* The positions of the buffer where the six-byte pattern occurs. *)
PatternPositions ==
  { q \in 0..(Len(data) - 6) :
      /\ data[q + 1] = 127 /\ data[q + 2] = 127
      /\ data[q + 5] = 0 /\ data[q + 6] \in {6, 7} }

(* C28: once the scan is over the candidate positions are strictly         *)
(* ascending, and every occurrence of the six-byte pattern is one of them  *)
(* unless it overlaps the six header bytes of a candidate before it, even  *)
(* when it lies inside the byte range an earlier candidate declares; the   *)
(* loop hands over the candidate of each position in turn.                 *)
C28_ScannerIgnoresDeclaredLength ==
  pc # "scan" =>
    /\ \A i \in 1..(Len(record_markerpt) - 1) : record_markerpt[i] < record_markerpt[i + 1]
    /\ \A q \in PatternPositions :
         \/ \E i \in 1..Len(record_markerpt) : record_markerpt[i] = q
         \/ \E i \in 1..Len(record_markerpt) :
              record_markerpt[i] < q /\ q < record_markerpt[i] + 6
    /\ pc = "loop" => Len(dvl["checksum"]) = k - 1
    /\ InEnsemble =>
         /\ k <= Len(record_markerpt)
         /\ Len(ensemble) >= 2
         /\ \A j \in 1..Len(ensemble) : ensemble[j] = data[record_markerpt[k] + j]

(* C28 witness: the decoder is at work on a candidate that starts inside   *)
(* the byte range the candidate before it declares, past that one's six    *)
(* header bytes.                                                           *)
C28_Witness ==
  /\ InEnsemble
  /\ k >= 2
  /\ record_markerpt[k] >= record_markerpt[k - 1] + 6
  /\ record_markerpt[k] < record_markerpt[k - 1] + NumBytesAtMarker(k - 1) + 2

(* The positions of the offset table, among those the dispatcher has       *)
(* walked, that resolve to a Fixed Leader.                                 *)
FixedLeadersWalked ==
  { j \in 1..Min(oi - 1, Len(offsets)) : DataTypeAt(ensemble, offsets[j]) = <<0>> }

(* The num_cells byte (byte 9) of the Fixed Leader decoded last in the     *)
(* current ensemble.                                                       *)
CellsOfThisEnsemble ==
  LET j == CHOOSE x \in FixedLeadersWalked : \A y \in FixedLeadersWalked : y <= x
  IN  ensemble[offsets[j] + 10]

(* A per-beam column of each cell-indexed section, and the bytes a cell    *)
(* takes in it.                                                            *)
BeamColumn ==
  [t \in {256, 512, 768, 1024} |->
     CASE t = 256  -> "water_velocity_east"
       [] t = 512  -> "correlation_magnitude_beam1"
       [] t = 768  -> "echo_intensity_beam1"
       [] t = 1024 -> "percent_good_3beam"]

CellBytesOf == [t \in {256, 512, 768, 1024} |-> IF t = 256 THEN 8 ELSE 4]

(* The dispatcher has just decoded a section of type id t. *)
JustDecoded(t) ==
  /\ pc = "dispatch"
  /\ oi > 1
  /\ DataTypeAt(ensemble, offsets[oi - 1]) = <<t>>

(* C29: the depth-cell count that sizes the cell-indexed sections of an    *)
(* ensemble is bound only by a Fixed Leader decoded earlier in that same   *)
(* ensemble and is its num_cells; a cell-indexed section is decoded only   *)
(* with such a count, and the per-beam row it appends has the length that  *)
(* count gives, whatever count an earlier ensemble left in the parser.     *)
C29_CellCountFromSameEnsemble ==
  /\ iCells # <<>> => (FixedLeadersWalked # {} /\ iCells = <<CellsOfThisEnsemble>>)
  /\ \A t \in {256, 512, 768, 1024} :
       JustDecoded(t) =>
         /\ FixedLeadersWalked # {}
         /\ NewRows(BeamColumn[t]) # <<>>
         /\ offsets[oi - 1] + 2 + CellBytesOf[t] * CellsOfThisEnsemble <= Len(ensemble) =>
              Len(NewRows(BeamColumn[t])[Len(NewRows(BeamColumn[t]))])
                = RangeLen(1, CellsOfThisEnsemble)

(* C29 witness: a first ensemble left the count MaxCells in the parser,    *)
(* and the Velocity section of a second ensemble, met before any Fixed     *)
(* Leader of its own, was refused for want of a count.                     *)
C29_Witness ==
  /\ k = 2
  /\ pc = "raised"
  /\ exc = Raise("UnboundLocalError", 365)
  /\ num_depth_cells = <<MaxCells>>
  /\ iCells = <<>>
  /\ NewRows("velocity_data_id") = <<>>

(* C30: whatever the low three bits of sysconfig are, a decoded Fixed      *)
(* Leader has an acoustic frequency appended that is one of 75, 150, 300,  *)
(* 600, 1200, 2400: every row of fixed_leader_id has its row of            *)
(* sysconfig_frequency, and the lookup of line 434 never raises.           *)
C30_FrequencyLookupTotal ==
  /\ exc # Raise("IndexError", 434)
  /\ Len(dvl["sysconfig_frequency"]) = Len(dvl["fixed_leader_id"])
  /\ \A i \in 1..Len(dvl["sysconfig_frequency"]) :
       dvl["sysconfig_frequency"][i] \in {75, 150, 300, 600, 1200, 2400}

====
